---------------------------- MODULE Spec2Model ----------------------------
(***************************************************************************)
(* DoomClone: the tile map, the player (camera), the sprites and the frame *)
(* loop, as a state machine.                                               *)
(*                                                                         *)
(* Numbers.  The program keeps positions and angles in floats.  The model  *)
(* keeps them in fixed point: a position is an integer number of quanta of *)
(* 1/Q of a map cell (Q = 20: one quantum is .05 cell, the step of the     *)
(* frame loop; Player::update_position moves .1 cell = 2 quanta), and a    *)
(* heading is an integer number of .05 rad, kept modulo one revolution of  *)
(* AUnits = 126 steps (6.3 rad for 2*pi).  cos and sin are tables scaled   *)
(* by Trig.  A product is rounded to the nearest quantum, a float to       *)
(* integer conversion truncates toward zero, as in C++.                    *)
(*                                                                         *)
(* size_t.  An index of type size_t that the code obtains as i-1 from i=0  *)
(* is kept as the integer -1: i + j*w is then the same array offset as the *)
(* wrapped 64-bit sum, and i < w is false for it, as for the wrapped value.*)
(***************************************************************************)
EXTENDS Integers, Sequences, FiniteSets, TLC

VARIABLES
    map,        \* static char map[]: the 256 cells, as character codes
    player,     \* Player: x, y, a, turn, walk, shooting
    since_shot, \* now() - player.shooting_time in ms, kept up to ShotMs
    monsters,   \* std::vector<Sprite>
    pc,         \* position of main in its frame loop
    last,       \* the last position update or Map call made, and what it did
    aborted,    \* an assertion failed (the process has aborted)
    ticks,      \* number of position updates made so far
    fb,         \* FrameBuffer: w, h, the length of img, and what img shows
    prompt,     \* the last render drew the "F to open" text
    tex,        \* the atlases of the game state: tex_walls, tex_monst
    sdl,        \* the SDL resources main holds
    exit_code,  \* what main returned, "none" while it runs
    clock       \* ms since t1 and since the last render began, as main's clock runs

vars == <<map, player, since_shot, monsters, pc, last, aborted, ticks,
          fb, prompt, tex, sdl, exit_code, clock>>

\* what only main and render write
gfx == <<fb, prompt, tex, sdl, exit_code, clock>>

---------------------------------------------------------------------------
(* Bounds of the exploration.                                              *)

\* position updates (of the player or of a sprite) in one run
MaxTicks == 2

---------------------------------------------------------------------------
(* Map: src/src/map.cpp                                                    *)

W1 == 49    \* '1', a wall
SP == 32    \* ' ', empty floor
D3 == 51    \* '3', a closed door
T9 == 57    \* '9', a door threshold
Zero == 48  \* '0', subtracted by Map::get
Nul == 0    \* the terminator of the string literal, map[w*h]

w == 16
h == 16

Map0 ==
       <<W1, W1, W1, W1, W1, W1, W1, W1, W1, W1, W1, W1, W1, W1, W1, W1>> \o
       <<W1, SP, SP, SP, SP, SP, SP, SP, SP, SP, SP, SP, SP, SP, SP, W1>> \o
       <<W1, SP, SP, SP, SP, SP, W1, W1, W1, W1, W1, D3, W1, W1, W1, W1>> \o
       <<W1, SP, SP, SP, SP, SP, W1, SP, SP, SP, SP, T9, SP, SP, SP, W1>> \o
       <<W1, SP, SP, SP, SP, SP, W1, SP, SP, SP, SP, SP, SP, SP, SP, W1>> \o
       <<W1, SP, T9, SP, SP, SP, W1, SP, SP, SP, SP, SP, SP, SP, SP, W1>> \o
       <<W1, W1, D3, W1, W1, W1, W1, W1, W1, SP, SP, SP, SP, SP, SP, W1>> \o
       <<W1, SP, SP, SP, W1, SP, SP, SP, W1, SP, SP, SP, SP, SP, SP, W1>> \o
       <<W1, SP, SP, SP, W1, SP, SP, SP, W1, SP, SP, SP, SP, SP, SP, W1>> \o
       <<W1, SP, SP, SP, W1, W1, D3, W1, W1, SP, SP, SP, SP, SP, SP, W1>> \o
       <<W1, SP, SP, SP, SP, SP, T9, SP, W1, SP, SP, SP, SP, SP, SP, W1>> \o
       <<W1, SP, SP, SP, SP, SP, SP, SP, W1, SP, SP, SP, SP, SP, SP, W1>> \o
       <<W1, W1, W1, W1, W1, W1, W1, W1, W1, SP, SP, SP, SP, SP, SP, W1>> \o
       <<W1, SP, SP, SP, SP, SP, SP, SP, SP, SP, SP, SP, SP, SP, SP, W1>> \o
       <<W1, SP, SP, SP, SP, SP, SP, SP, SP, SP, SP, SP, SP, SP, SP, W1>> \o
       <<W1, W1, W1, W1, W1, W1, W1, W1, W1, W1, W1, W1, W1, W1, W1, W1>>

\* the value of a read outside the array object (undefined behaviour)
Undef == -1000

\* what such a read can yield: any character code
Junk == {Nul, SP, W1, D3, T9}

\* map[k] of the C array of w*h+1 chars
At(m, k) ==
    IF k >= 0 /\ k < w * h THEN m[k + 1]
    ELSE IF k = w * h THEN Nul
    ELSE Undef

\* the condition of the assertions: i<w && j<h, on size_t
InRange(i, j) == i >= 0 /\ i < w /\ j >= 0 /\ j < h

\* Map::get: its assertion is commented out, it reads map[i+j*w] as is
Get(m, i, j) ==
    IF At(m, i + j * w) = Undef THEN Undef ELSE At(m, i + j * w) - Zero

IsEmptyAlways(m, i, j) == TRUE

\* Map::is_empty, once its assertion has passed
IsEmpty(m, i, j) == At(m, i + j * w) = SP \/ At(m, i + j * w) = T9

CheckDoorMinusFirst(m, i, j) ==
    IF Get(m, i - 1, j) = 3 THEN <<-1, 0>>
    ELSE IF Get(m, i + 1, j) = 3 THEN <<1, 0>>
    ELSE IF Get(m, i, j + 1) = 3 THEN <<0, 1>>
    ELSE IF Get(m, i, j - 1) = 3 THEN <<0, -1>>
    ELSE <<0, 0>>

\* Map::check_door
CheckDoor(m, i, j) ==
    IF Get(m, i + 1, j) = 3 THEN <<1, 0>>
    ELSE IF Get(m, i - 1, j) = 3 THEN <<-1, 0>>
    ELSE IF Get(m, i, j + 1) = 3 THEN <<0, 1>>
    ELSE IF Get(m, i, j - 1) = 3 THEN <<0, -1>>
    ELSE <<0, 0>>

OpenDoorOffByOne(m, i, j) ==
    IF At(m, i + j * w) = D3 THEN [m EXCEPT ![i + j * w + 2] = SP] ELSE m

OpenDoorToggle(m, i, j) ==
    IF At(m, i + j * w) = D3 THEN [m EXCEPT ![i + j * w + 1] = SP]
    ELSE IF At(m, i + j * w) = SP THEN [m EXCEPT ![i + j * w + 1] = D3]
    ELSE m

OpenDoorToZero(m, i, j) ==
    IF At(m, i + j * w) = D3 THEN [m EXCEPT ![i + j * w + 1] = Zero] ELSE m

\* Map::open_door, once its assertion has passed
OpenDoor(m, i, j) ==
    IF At(m, i + j * w) = D3 THEN [m EXCEPT ![i + j * w + 1] = SP] ELSE m

---------------------------------------------------------------------------
(* Fixed point                                                             *)

Q == 20         \* quanta per map cell: one quantum is the .05 of the frame loop
Trig == 1000    \* scale of CosTab and SinTab
AUnits == 126   \* heading steps of .05 rad in one revolution

\* cos(.05 * k) * Trig, k = 0 .. AUnits-1
CosTab ==
    <<
        1000,   999,   995,   989,   980,   969,   955,   939,   921,   900,   878,   853,   825,   796,
         765,   732,   697,   660,   622,   582,   540,   498,   454,   408,   362,   315,   267,   219,
         170,   121,    71,    21,   -29,   -79,  -129,  -178,  -227,  -276,  -323,  -370,  -416,  -461,
        -505,  -547,  -589,  -628,  -666,  -703,  -737,  -770,  -801,  -830,  -857,  -882,  -904,  -924,
        -942,  -958,  -971,  -982,  -990,  -996,  -999, -1000,  -998,  -994,  -987,  -978,  -967,  -953,
        -936,  -918,  -897,  -874,  -848,  -821,  -791,  -759,  -726,  -691,  -654,  -615,  -575,  -533,
        -490,  -446,  -401,  -355,  -307,  -259,  -211,  -162,  -112,   -62,   -12,    38,    87,   137,
         187,   235,   284,   331,   378,   424,   469,   512,   554,   595,   635,   673,   709,   743,
         776,   806,   835,   861,   886,   908,   927,   945,   960,   973,   983,   991,   997,   999
    >>

\* sin(.05 * k) * Trig
SinTab ==
    <<
           0,    50,   100,   149,   199,   247,   296,   343,   389,   435,   479,   523,   565,   605,
         644,   682,   717,   751,   783,   813,   841,   867,   891,   913,   932,   949,   964,   976,
         985,   993,   997,  1000,  1000,   997,   992,   984,   974,   961,   946,   929,   909,   887,
         863,   837,   808,   778,   746,   711,   675,   638,   598,   558,   516,   472,   427,   382,
         335,   287,   239,   190,   141,    91,    42,    -8,   -58,  -108,  -158,  -207,  -256,  -304,
        -351,  -397,  -443,  -487,  -530,  -572,  -612,  -651,  -688,  -723,  -757,  -789,  -818,  -846,
        -872,  -895,  -916,  -935,  -952,  -966,  -978,  -987,  -994,  -998, -1000,  -999,  -996,  -991,
        -982,  -972,  -959,  -944,  -926,  -906,  -883,  -859,  -832,  -804,  -773,  -740,  -706,  -669,
        -631,  -592,  -551,  -508,  -465,  -420,  -374,  -327,  -279,  -231,  -182,  -133,   -83,   -33
    >>

Cos(a) == CosTab[a + 1]
Sin(a) == SinTab[a + 1]

Abs(n) == IF n >= 0 THEN n ELSE -n

\* n / d rounded to the nearest integer, d > 0
RoundDiv(n, d) ==
    IF n >= 0 THEN (2 * n + d) \div (2 * d) ELSE -((2 * (-n) + d) \div (2 * d))

\* int(v), size_t(v) of a float position v: the map cell, truncated toward zero
Trunc(v) == IF v >= 0 THEN v \div Q ELSE -((-v) \div Q)

\* the heading after a turn, modulo one revolution
Turned(a, d) == (a + d + AUnits) % AUnits

---------------------------------------------------------------------------
(* Player: src/unnamed/part_007                                            *)

TurnStep == 2   \* .1 rad
WalkStep == 2   \* .1 cell
ShotMs == 100   \* the shooting flag lasts 100 ms

\* the candidate position of Player::update_position
CandA(p) == Turned(p.a, p.turn * TurnStep)
CandX(p) == p.x + RoundDiv(p.walk * Cos(CandA(p)) * WalkStep, Trig)
CandY(p) == p.y + RoundDiv(p.walk * Sin(CandA(p)) * WalkStep, Trig)

\* the bounds test on the candidate
CandInMap(p) ==
    /\ Trunc(CandX(p)) >= 0 /\ Trunc(CandX(p)) < w
    /\ Trunc(CandY(p)) >= 0 /\ Trunc(CandY(p)) < h

MoveXYOldX(p, m) ==
    LET nx == CandX(p)
        ny == CandY(p)
        x1 == IF CandInMap(p) /\ IsEmpty(m, Trunc(nx), Trunc(p.y)) THEN nx ELSE p.x
        y1 == IF CandInMap(p) /\ IsEmpty(m, Trunc(p.x), Trunc(ny)) THEN ny ELSE p.y
    IN  <<x1, y1>>

MoveXYBoth(p, m) ==
    LET nx == CandX(p)
        ny == CandY(p)
    IN  IF CandInMap(p) /\ IsEmpty(m, Trunc(nx), Trunc(p.y))
                        /\ IsEmpty(m, Trunc(p.x), Trunc(ny))
        THEN <<nx, ny>> ELSE <<p.x, p.y>>

\* lines 25-28: x is committed first, y is then tested against the new x
MoveXY(p, m) ==
    LET nx == CandX(p)
        ny == CandY(p)
        x1 == IF CandInMap(p) /\ IsEmpty(m, Trunc(nx), Trunc(p.y)) THEN nx ELSE p.x
        y1 == IF CandInMap(p) /\ IsEmpty(m, Trunc(x1), Trunc(ny)) THEN ny ELSE p.y
    IN  <<x1, y1>>

\* the assertions of the two is_empty calls of lines 26-27 pass
MoveAsserts(p, m) ==
    CandInMap(p) =>
        /\ InRange(Trunc(CandX(p)), Trunc(p.y))
        /\ InRange(Trunc(MoveXY(p, m)[1]), Trunc(CandY(p)))

\* Player::update_position, when no assertion fails; ms is now() - shooting_time
UpdatePosition(p, m, ms) ==
    [p EXCEPT !.a = CandA(p),
              !.x = MoveXY(p, m)[1],
              !.y = MoveXY(p, m)[2],
              !.shooting = IF p.shooting /\ ms >= ShotMs THEN FALSE ELSE p.shooting]

\* floor of the square root of n >= 0, by bisection in lo..hi
RECURSIVE SqrtIn(_, _, _)
SqrtIn(n, lo, hi) ==
    IF lo >= hi THEN lo
    ELSE LET mid == (lo + hi + 1) \div 2
         IN  IF mid * mid <= n THEN SqrtIn(n, mid, hi) ELSE SqrtIn(n, lo, mid - 1)

ISqrt(n) == SqrtIn(n, 0, 46340)

ShotRange == 15     \* sprite_dist < 15 cells
ConeNum == 52       \* tan(shooting_fov / 2) = tan(fov / 20) = tan(pi / 60) = .052
ConeDen == 1000

\* the vector whose angle is atan2(dy, dx): atan2(0, 0) is 0
Bearing(dx, dy) == IF dx = 0 /\ dy = 0 THEN <<1, 0>> ELSE <<dx, dy>>

\* |sprite_dir - a|, brought into [-pi, pi] by lines 50-51, is below the
\* angle of tangent num/den: by the dot and cross products with the heading
Within(p, dx, dy, num, den) ==
    LET b == Bearing(dx, dy)
        dot == b[1] * Cos(p.a) + b[2] * Sin(p.a)
        cross == b[1] * Sin(p.a) - b[2] * Cos(p.a)
    IN  dot > 0 /\ Abs(cross) * den < num * dot

HitWide(p, s) ==
    /\ (s.x - p.x) * (s.x - p.x) + (s.y - p.y) * (s.y - p.y) < (ShotRange * Q) * (ShotRange * Q)
    /\ Within(p, s.x - p.x, s.y - p.y, 2 * ConeNum, ConeDen)

\* line 54: the sprite is hit
Hit(p, s) ==
    /\ (s.x - p.x) * (s.x - p.x) + (s.y - p.y) * (s.y - p.y) < (ShotRange * Q) * (ShotRange * Q)
    /\ Within(p, s.x - p.x, s.y - p.y, ConeNum, ConeDen)

\* vector::erase of element k
Erase(seq, k) == SubSeq(seq, 1, k - 1) \o SubSeq(seq, k + 1, Len(seq))

RECURSIVE RemoveHitSkip(_, _, _)
RemoveHitSkip(p, seq, k) ==
    IF k > Len(seq) THEN seq
    ELSE IF Hit(p, seq[k]) THEN RemoveHitSkip(p, Erase(seq, k), k + 1)
    ELSE RemoveHitSkip(p, seq, k + 1)

\* the loop of lines 48-59, the iterator at element k
RECURSIVE RemoveHitFrom(_, _, _)
RemoveHitFrom(p, seq, k) ==
    IF k > Len(seq) THEN seq
    ELSE IF Hit(p, seq[k]) THEN RemoveHitFrom(p, Erase(seq, k), k)
    ELSE RemoveHitFrom(p, seq, k + 1)

\* Player::check_and_remove_hit_monster
CheckAndRemoveHitMonster(p, seq) == RemoveHitFrom(p, seq, 1)

Keys == {"a", "d", "w", "s", "f", "x"}
Buttons == {"left", "right", "middle"}

\* SDL events as Player::handle_event tells them apart
Events ==
    [type : {"keyup", "keydown"}, sym : Keys]
        \cup [type : {"mousedown"}, sym : Buttons]
        \cup [type : {"mousemotion"}, sym : {"none"}]

IsKey(e, type, syms) == e.type = type /\ e.sym \in syms

IsFire(e) == e.type = "mousedown" /\ e.sym \in {"left", "right"}

HandleKeysHeld(p, e) ==
    LET t1 == IF IsKey(e, "keyup", {"a"}) /\ p.turn = -1 THEN 0
              ELSE IF IsKey(e, "keyup", {"d"}) /\ p.turn = 1 THEN 0 ELSE p.turn
        w1 == IF IsKey(e, "keyup", {"w"}) /\ p.walk = 1 THEN 0
              ELSE IF IsKey(e, "keyup", {"s"}) /\ p.walk = -1 THEN 0 ELSE p.walk
        t2 == IF IsKey(e, "keydown", {"a"}) THEN -1
              ELSE IF IsKey(e, "keydown", {"d"}) THEN 1 ELSE t1
        w2 == IF IsKey(e, "keydown", {"w"}) THEN 1
              ELSE IF IsKey(e, "keydown", {"s"}) THEN -1 ELSE w1
    IN  [p EXCEPT !.turn = t2, !.walk = w2]

\* lines 83-91: the intent flags
HandleKeys(p, e) ==
    LET t1 == IF IsKey(e, "keyup", {"a", "d"}) THEN 0 ELSE p.turn
        w1 == IF IsKey(e, "keyup", {"w", "s"}) THEN 0 ELSE p.walk
        t2 == IF IsKey(e, "keydown", {"a"}) THEN -1
              ELSE IF IsKey(e, "keydown", {"d"}) THEN 1 ELSE t1
        w2 == IF IsKey(e, "keydown", {"w"}) THEN 1
              ELSE IF IsKey(e, "keydown", {"s"}) THEN -1 ELSE w1
    IN  [p EXCEPT !.turn = t2, !.walk = w2]

DoorTargetsAnyCell(p, m, e) ==
    LET i == Trunc(p.x)
        j == Trunc(p.y)
        d == CheckDoor(m, i, j)
    IN  IF IsKey(e, "keydown", {"f"}) /\ d # <<0, 0>>
        THEN {<<i + d[1], j + d[2]>>} ELSE {}

DoorTargetsSwapped(p, m, e) ==
    LET i == Trunc(p.x)
        j == Trunc(p.y)
        d == CheckDoor(m, i, j)
    IN  IF IsKey(e, "keydown", {"f"}) /\ Get(m, i, j) = 9 /\ d # <<0, 0>>
        THEN {<<i + d[2], j + d[1]>>} ELSE {}

\* lines 92-100: the cells handed to Map::open_door by the event
DoorTargets(p, m, e) ==
    LET i == Trunc(p.x)
        j == Trunc(p.y)
        d == CheckDoor(m, i, j)
    IN  IF IsKey(e, "keydown", {"f"}) /\ Get(m, i, j) = 9 /\ d # <<0, 0>>
        THEN {<<i + d[1], j + d[2]>>} ELSE {}

\* the map after open_door on each cell of a set of at most one cell
Opened(m, cells) ==
    IF cells = {} THEN m
    ELSE LET c == CHOOSE c \in cells : TRUE IN OpenDoor(m, c[1], c[2])

---------------------------------------------------------------------------
(* Sprite: src/src/sprite.cpp                                              *)

NaN == -100000      \* a float that is not a number

\* what size_t(NaN) can yield: 0, or a value no less than w (kept as -1)
NaNConv == {0, -1}

\* speeds handed to Sprite::update_position, in quanta
Speeds == {2}

\* lines 22-24: ten times the length of the direction vector, NaN of a NaN
Length10(s, p) ==
    IF s.x = NaN \/ s.y = NaN THEN NaN
    ELSE ISqrt(((p.x - s.x) * (p.x - s.x) + (p.y - s.y) * (p.y - s.y)) * 100)

\* lines 27-32: a candidate coordinate from its length; a zero length divides 0 by 0
Toward(from, to, speed, len10) ==
    IF len10 = NaN \/ len10 = 0 THEN NaN
    ELSE from + RoundDiv((to - from) * speed * 10, len10)

\* size_t(v) at a call of is_empty; c is what the conversion of a NaN yields
Index(v, c) == IF v = NaN THEN c ELSE Trunc(v)

SpriteMoveOldX(s, p, m, speed, c) ==
    LET len10 == Length10(s, p)
        new_x == Toward(s.x, p.x, speed, len10)
        new_y == Toward(s.y, p.y, speed, len10)
        ok1 == InRange(Index(new_x, c), Index(s.y, c))
        x1 == IF ok1 /\ IsEmpty(m, Index(new_x, c), Index(s.y, c)) THEN new_x ELSE s.x
        ok2 == InRange(Index(s.x, c), Index(new_y, c))
        y1 == IF ok2 /\ IsEmpty(m, Index(s.x, c), Index(new_y, c)) THEN new_y ELSE s.y
    IN  [x |-> x1, y |-> y1, nx |-> new_x, ny |-> new_y, ok |-> ok1 /\ ok2]

\* Sprite::update_position, lines 21-41: the position it leaves, and whether
\* the assertions of its two is_empty calls passed
SpriteMove(s, p, m, speed, c) ==
    LET len10 == Length10(s, p)
        new_x == Toward(s.x, p.x, speed, len10)
        new_y == Toward(s.y, p.y, speed, len10)
        ok1 == InRange(Index(new_x, c), Index(s.y, c))
        x1 == IF ok1 /\ IsEmpty(m, Index(new_x, c), Index(s.y, c)) THEN new_x ELSE s.x
        ok2 == InRange(Index(x1, c), Index(new_y, c))
        y1 == IF ok2 /\ IsEmpty(m, Index(x1, c), Index(new_y, c)) THEN new_y ELSE s.y
    IN  [x |-> x1, y |-> y1, nx |-> new_x, ny |-> new_y, ok |-> ok1 /\ ok2]

\* gui.cpp line 239: the cached distance, in tenths of a quantum
Dist(p, s) == ISqrt(((p.x - s.x) * (p.x - s.x) + (p.y - s.y) * (p.y - s.y)) * 100)

---------------------------------------------------------------------------
(* Colours: src/include/headers/sprite.h, lines 40-62 (utils.cpp)          *)
(* A uint32_t is kept as <<high half, low half>>, each in 0..65535.        *)

Byte == 0..255

\* the 32-bit sum of two words
Add32(u, v) ==
    <<(u[1] + v[1] + (u[2] + v[2]) \div 65536) % 65536, (u[2] + v[2]) % 65536>>

\* n << k as a 32-bit word, n a byte and k one of 0, 8, 16, 24
Shl(n, k) ==
    IF k = 0 THEN <<0, n>>
    ELSE IF k = 8 THEN <<0, n * 256>>
    ELSE IF k = 16 THEN <<n, 0>>
    ELSE <<(n * 256) % 65536, 0>>

\* (color >> k) & 255
ShrByte(c, k) ==
    IF k = 0 THEN c[2] % 256
    ELSE IF k = 8 THEN (c[2] \div 256) % 256
    ELSE IF k = 16 THEN c[1] % 256
    ELSE (c[1] \div 256) % 256

\* pack_color: (a<<24) + (b<<16) + (g<<8) + r
PackColor(r, g, b, a) == Add32(Add32(Add32(Shl(a, 24), Shl(b, 16)), Shl(g, 8)), Shl(r, 0))

UnpackColorBgr(c) == <<ShrByte(c, 16), ShrByte(c, 8), ShrByte(c, 0), ShrByte(c, 24)>>

\* unpack_color: <<r, g, b, a>>
UnpackColor(c) == <<ShrByte(c, 0), ShrByte(c, 8), ShrByte(c, 16), ShrByte(c, 24)>>

---------------------------------------------------------------------------
(* Texture: src/src/textures.cpp                                           *)

\* an atlas that was not loaded: the member initialisers of the constructor
NoTexture == [img_w |-> 0, img_h |-> 0, count |-> 0, size |-> 0, img |-> <<>>]

\* an image file as the constructor meets it: whether SDL_LoadBMP and
\* SDL_ConvertSurfaceFormat succeed, whether the pitch is 4 bytes a pixel,
\* and the width and height of the surface
ImageFile(loads, converts, pitch4, iw, ih) ==
    [loads |-> loads, converts |-> converts, pitch4 |-> pitch4, w |-> iw, h |-> ih]

\* lines 30-50: the constructor returns before it fills the atlas
LoadFails(f) == ~f.loads \/ ~f.converts \/ ~f.pitch4

\* lines 57-58: w / count divides by zero when w < h
LoadDividesByZero(f) == ~LoadFails(f) /\ f.w \div f.h = 0

\* what w / 0 leaves in size on a build where the division does not trap
DivByZero == {0}

\* Texture::Texture, lines 29-74; z is what w / 0 yields where it does not
\* trap; pixel k of the atlas is the k-th pixel of the file
LoadTexture(f, z) ==
    IF LoadFails(f) THEN NoTexture
    ELSE [img_w |-> f.w, img_h |-> f.h, count |-> f.w \div f.h,
          size |-> IF f.w \div f.h = 0 THEN z ELSE f.w \div (f.w \div f.h),
          img |-> [k \in 1..(f.w * f.h) |-> k]]

\* Texture::get, line 78: img[i + idx*size + j*img_w]; 0 stands for a read
\* past the end of img
TexGet(a, i, j, idx) ==
    IF i + idx * a.size + j * a.img_w < Len(a.img)
    THEN a.img[i + idx * a.size + j * a.img_w + 1] ELSE 0

GetScaledColumnRoundUp(a, id, c, ch) ==
    [y \in 1..ch |-> TexGet(a, c, ((y - 1) * a.size + ch - 1) \div ch, id)]

\* Texture::get_scaled_column, lines 83-87, once its assertion has passed
GetScaledColumn(a, id, c, ch) ==
    [y \in 1..ch |-> TexGet(a, c, ((y - 1) * a.size) \div ch, id)]

---------------------------------------------------------------------------
(* FrameBuffer: src/src/framebuffer.cpp, and what render paints            *)

FbW == 1600
FbH == 1050

\* Two pixels stand for the image: "back" is written by clear and by the
\* floor and ceiling pass only, "front" also by the passes that follow.  A
\* colour is kept as the pass that wrote it and the view it was painted from.
Pixels == {"back", "front"}

NoView == <<0, 0, FALSE, 0, 0>>

Paint(by, of) == [by |-> by, of |-> of]

\* FrameBuffer fb{1600, 1050, std::vector<uint32_t>(1024*512, white)}
Fb0 == [w |-> FbW, h |-> FbH, len |-> 1024 * 512, img |-> [q \in Pixels |-> Paint("clear", NoView)]]

\* before main has constructed it
FbNone == [w |-> 0, h |-> 0, len |-> 0, img |-> [q \in Pixels |-> Paint("clear", NoView)]]

\* the condition img.size()==w*h of the assertions of set_pixel, draw_rectangle
FbSized(f) == f.len = f.w * f.h

\* FrameBuffer::clear: img = std::vector<uint32_t>(w*h, color)
FbClear(f) == [f EXCEPT !.len = f.w * f.h, !.img = [q \in Pixels |-> Paint("clear", NoView)]]

\* FrameBuffer::set_pixel and draw_rectangle, once their assertions have passed
FbSetPixel(f, q, c) == [f EXCEPT !.img[q] = c]

\* what the passes of render read of the game state: the player's cell, the
\* gun frame, the number of sprites and the number of open doors
View(m, p, seq) ==
    <<Trunc(p.x), Trunc(p.y), p.shooting, Len(seq),
      Cardinality({k \in 1..(w * h) : Map0[k] = D3 /\ m[k] = SP})>>

RenderFbNoRepaint(f, m, p, seq) ==
    FbSetPixel(f, "front", Paint("front", View(m, p, seq)))

\* render, part_006 lines 400-575: clear, then the floor and ceiling pass
\* over every pixel, then walls, sprites, map and gun
RenderFb(f, m, p, seq) ==
    LET f1 == FbClear(f)
        f2 == FbSetPixel(FbSetPixel(f1, "back", Paint("floor", View(m, p, seq))),
                         "front", Paint("floor", View(m, p, seq)))
    IN  FbSetPixel(f2, "front", Paint("front", View(m, p, seq)))

\* the assertions of set_pixel pass during render
RenderAsserts(f) == FbSized(FbClear(f))

\* render, part_006 lines 577-579: the cell is computed and nothing is drawn
RenderPrompt(m, p) == FALSE

\* the atlases main loads and the loop runs with: six wall tiles, three
\* monster tiles, here two pixels high
WallsFile == ImageFile(TRUE, TRUE, TRUE, 12, 2)
MonstFile == ImageFile(TRUE, TRUE, TRUE, 6, 2)
Tex0 == [walls |-> LoadTexture(WallsFile, 0), monst |-> LoadTexture(MonstFile, 0)]

\* what main holds of SDL when the loop runs
SdlAll == {"sdl", "window", "renderer", "texture"}

\* gui.cpp, line 205: the frame budget in ms; line 206: the sleep in ms
FrameMs == 20
NapMs == 3

\* how long sleep_for(3 ms) is seen to take, and how long a step of a frame
Naps == {NapMs, NapMs + 2}
Work == {0, 3}

\* gui.cpp, line 197: t1 = now(), nothing rendered yet
Clock0 == [since_t1 |-> 0, since_draw |-> 0, shown |-> FALSE]

\* the clock d ms later
Later(c, d) ==
    [c EXCEPT !.since_t1 = c.since_t1 + d,
              !.since_draw = IF c.shown THEN c.since_draw + d ELSE 0]

\* the frame buffer, atlases and SDL resources as the loop begins
GfxAtLoop ==
    /\ fb = Fb0
    /\ prompt = FALSE
    /\ tex = Tex0
    /\ sdl = SdlAll
    /\ exit_code = "none"
    /\ clock = Clock0

---------------------------------------------------------------------------
(* The objects as the frame code drives them: any call, in any order       *)

\* the sprites of main
Monsters0 ==
    << [x |-> 4 * Q, y |-> 14 * Q, tex_id |-> 0, player_dist |-> 0],
       [x |-> 6 * Q, y |-> 14 * Q + Q \div 2, tex_id |-> 1, player_dist |-> 0],
       [x |-> 8 * Q, y |-> 13 * Q + Q \div 2, tex_id |-> 2, player_dist |-> 0] >>

\* the player as main constructs it: (2, 14), 270 rad; shooting is not
\* initialised by the constructor
PlayerAt(x, y, a) ==
    {[x |-> x, y |-> y, a |-> a, turn |-> 0, walk |-> 0, shooting |-> b] : b \in BOOLEAN}

\* the poses main could construct the player at: its own, (2, 14) at 270 rad,
\* and one on the threshold (11,3), facing the door (11,2)
Poses ==
    PlayerAt(2 * Q, 14 * Q, 122) \cup PlayerAt(230, 62, 94)

\* more poses: beside the corner of the wall cell (8,12), in cell (9,13) facing
\* up-left and in cell (8,13) facing up-right; on the threshold (2,5), facing
\* the door (2,6); and in cell (2,7), on the other side of that door
WalkPoses ==
    Poses \cup PlayerAt(181, 261, 79) \cup PlayerAt(179, 260, 110)
          \cup PlayerAt(50, 118, 31) \cup PlayerAt(50, 142, 94)

Call(op, arg, ret) == [op |-> op, arg |-> arg, ret |-> ret]

Init ==
    /\ map = Map0
    /\ player \in Poses
    /\ since_shot = ShotMs
    /\ monsters = Monsters0
    /\ pc = "objects"
    /\ last = Call("init", <<>>, <<>>)
    /\ aborted = FALSE
    /\ ticks = 0
    /\ GfxAtLoop

\* player.handle_event(e, map, monsters)
HandleEventOf(e) ==
    /\ ~aborted
    /\ IF \E c \in DoorTargets(player, map, e) : ~InRange(c[1], c[2])
       THEN /\ aborted' = TRUE
            /\ UNCHANGED <<map, player, since_shot, monsters, last>>
       ELSE /\ map' = Opened(map, DoorTargets(player, map, e))
            /\ player' = [HandleKeys(player, e) EXCEPT
                             !.shooting = IF IsFire(e) THEN TRUE ELSE @]
            /\ since_shot' = IF IsFire(e) THEN 0 ELSE since_shot
            /\ monsters' = IF IsFire(e)
                           THEN CheckAndRemoveHitMonster(player, monsters)
                           ELSE monsters
            /\ last' = IF IsFire(e)
                       THEN Call("check_and_remove_hit_monster", monsters,
                                 CheckAndRemoveHitMonster(player, monsters))
                       ELSE last
            /\ UNCHANGED aborted
    /\ UNCHANGED <<pc, ticks>>
    /\ UNCHANGED gfx

\* a key event reaches Player::handle_event
KeyEvent == \E e \in Events : e.type \in {"keyup", "keydown"} /\ HandleEventOf(e)

\* a mouse event reaches Player::handle_event
MouseEvent == \E e \in Events : e.type \in {"mousedown", "mousemotion"} /\ HandleEventOf(e)

\* what the two commits of update_position did: which axes moved
MoveKind(p, m) ==
    <<CandX(p) # p.x, CandY(p) # p.y, MoveXY(p, m)[1] # p.x, MoveXY(p, m)[2] # p.y>>

\* player.update_position(map)
PlayerUpdate ==
    /\ ~aborted
    /\ ticks < MaxTicks
    /\ ticks' = ticks + 1
    /\ IF MoveAsserts(player, map)
       THEN /\ player' = UpdatePosition(player, map, since_shot)
            /\ last' = Call("update_position", <<>>, MoveKind(player, map))
            /\ UNCHANGED aborted
       ELSE /\ aborted' = TRUE
            /\ last' = Call("update_position", <<>>, <<>>)
            /\ UNCHANGED player
    /\ UNCHANGED <<map, since_shot, monsters, pc>>
    /\ UNCHANGED gfx

\* monsters[k].update_position(player, map, speed); c is what size_t(NaN) yields
SpriteUpdateOf(k, speed, c) ==
    LET s == monsters[k]
        r == SpriteMove(s, player, map, speed, c)
    IN
    /\ ~aborted
    /\ ticks < MaxTicks
    /\ ticks' = ticks + 1
    /\ IF r.ok
       THEN /\ monsters' = [monsters EXCEPT ![k] = [s EXCEPT !.x = r.x, !.y = r.y]]
            /\ last' = Call("sprite_update", k,
                            <<r.nx # s.x, r.ny # s.y, r.x # s.x, r.y # s.y>>)
            /\ UNCHANGED aborted
       ELSE /\ aborted' = TRUE
            /\ last' = Call("sprite_update", k, <<>>)
            /\ UNCHANGED monsters
    /\ UNCHANGED <<map, player, since_shot, pc>>
    /\ UNCHANGED gfx

SpriteUpdate ==
    \E k \in 1..Len(monsters), speed \in Speeds, c \in NaNConv : SpriteUpdateOf(k, speed, c)

ClockStep == 100     \* ms by which the clock is seen to advance

\* time passes
TimePasses ==
    /\ ~aborted
    /\ since_shot < ShotMs
    /\ since_shot' = IF since_shot + ClockStep > ShotMs THEN ShotMs
                     ELSE since_shot + ClockStep
    /\ UNCHANGED <<map, player, monsters, pc, last, aborted, ticks>>
    /\ UNCHANGED gfx

\* render(fb, gs, renderer): the game state is passed const
Render ==
    /\ ~aborted
    /\ IF RenderAsserts(fb)
       THEN /\ fb' = RenderFb(fb, map, player, monsters)
            /\ prompt' = RenderPrompt(map, player)
            /\ UNCHANGED aborted
       ELSE /\ aborted' = TRUE
            /\ UNCHANGED <<fb, prompt>>
    /\ UNCHANGED <<map, player, since_shot, monsters, pc, last, ticks, tex, sdl, exit_code, clock>>

\* the player on the map: key events and position updates
InitWalk ==
    /\ map = Map0
    /\ player \in WalkPoses
    /\ since_shot = ShotMs
    /\ monsters = Monsters0
    /\ pc = "objects"
    /\ last = Call("init", <<>>, <<>>)
    /\ aborted = FALSE
    /\ ticks = 0
    /\ GfxAtLoop

NextWalk == KeyEvent \/ PlayerUpdate

SpecWalk == InitWalk /\ [][NextWalk]_vars

Next == KeyEvent \/ MouseEvent \/ PlayerUpdate \/ SpriteUpdate \/ TimePasses \/ Render

Spec == Init /\ [][Next]_vars

---------------------------------------------------------------------------
(* The Map alone: its four methods called on maps that differ from the     *)
(* program's around one cell                                               *)

Probe == <<11, 3>>
ProbeI == Probe[1]
ProbeJ == Probe[2]

\* the four neighbours of the probed cell (11,3), in the order of check_door
Neighbours ==
    <<<<ProbeI + 1, ProbeJ>>, <<ProbeI - 1, ProbeJ>>,
      <<ProbeI, ProbeJ + 1>>, <<ProbeI, ProbeJ - 1>>>>

CellCodes == {SP, W1, D3, T9}

\* Map0 with the four neighbours holding the codes f[1..4]
MapWith(f) ==
    [k \in 1..(w * h) |->
        IF \E n \in 1..4 : k = Neighbours[n][1] + Neighbours[n][2] * w + 1
        THEN f[CHOOSE n \in 1..4 : k = Neighbours[n][1] + Neighbours[n][2] * w + 1]
        ELSE Map0[k]]

\* the cells the methods are called on: the probed cell, its neighbours, a
\* door of the program's map, and indices out of range
InArgs == {<<ProbeI, ProbeJ>>, <<2, 6>>} \cup {Neighbours[n] : n \in 1..4}
OutArgs == {<<w, ProbeJ>>, <<0, h>>, <<ProbeI, h>>, <<-1, 0>>}

InitMap ==
    /\ map \in {MapWith(f) : f \in [1..4 -> CellCodes]}
    /\ player \in PlayerAt(2 * Q, 14 * Q, 122)
    /\ since_shot = ShotMs
    /\ monsters = Monsters0
    /\ pc = "map"
    /\ last = Call("init", <<>>, <<>>)
    /\ aborted = FALSE
    /\ ticks = 0
    /\ GfxAtLoop

\* map.get(i, j): no assertion; a read outside the array yields anything
GetCall ==
    /\ ~aborted
    /\ \E c \in InArgs \cup OutArgs :
        \E v \in IF Get(map, c[1], c[2]) = Undef THEN {x - Zero : x \in Junk}
                 ELSE {Get(map, c[1], c[2])} :
            last' = Call("get", c, v)
    /\ UNCHANGED <<map, player, since_shot, monsters, pc, aborted, ticks>>
    /\ UNCHANGED gfx

\* map.is_empty(i, j)
IsEmptyCall ==
    /\ ~aborted
    /\ \E c \in InArgs \cup OutArgs :
        IF InRange(c[1], c[2])
        THEN /\ last' = Call("is_empty", c, IsEmpty(map, c[1], c[2]))
             /\ UNCHANGED aborted
        ELSE /\ last' = Call("is_empty", c, <<>>)
             /\ aborted' = TRUE
    /\ UNCHANGED <<map, player, since_shot, monsters, pc, ticks>>
    /\ UNCHANGED gfx

\* map.check_door(i, j)
CheckDoorCall ==
    /\ ~aborted
    /\ \E c \in InArgs : last' = Call("check_door", c, CheckDoor(map, c[1], c[2]))
    /\ UNCHANGED <<map, player, since_shot, monsters, pc, aborted, ticks>>
    /\ UNCHANGED gfx

\* map.open_door(i, j); last.ret: the code the cell held before the call, and
\* before the call preceding it when that was open_door on the same cell
OpenDoorCall ==
    /\ ~aborted
    /\ \E c \in InArgs \cup OutArgs :
        IF InRange(c[1], c[2])
        THEN /\ map' = OpenDoor(map, c[1], c[2])
             /\ last' = Call("open_door", c,
                             <<At(map, c[1] + c[2] * w),
                               IF last.op = "open_door" /\ last.arg = c
                               THEN last.ret[1] ELSE Nul>>)
             /\ UNCHANGED aborted
        ELSE /\ last' = Call("open_door", c, <<>>)
             /\ aborted' = TRUE
             /\ UNCHANGED map
    /\ UNCHANGED <<player, since_shot, monsters, pc, ticks>>
    /\ UNCHANGED gfx

NextMap == GetCall \/ IsEmptyCall \/ CheckDoorCall \/ OpenDoorCall

SpecMap == InitMap /\ [][NextMap]_vars

---------------------------------------------------------------------------
(* The hit test alone: fire events on drawn poses and monster lists        *)

MaxMonsters == 3

\* where the sprites stand: east of the player of the first pose in its room,
\* beyond the wall of column 8, off the axis, on the player, and in the far
\* corner of the map
HitSpots == {<<130, 210>>, <<210, 210>>, <<130, 230>>, <<70, 210>>, <<290, 290>>}

MonsterLists ==
    UNION {{[k \in 1..n |-> [x |-> f[k][1], y |-> f[k][2], tex_id |-> k - 1, player_dist |-> 0]] :
                f \in [1..n -> HitSpots]} : n \in 0..MaxMonsters}

\* in cell (3,10) facing east, a little off east, and toward <<130, 230>>; in
\* cell (1,1) facing the far corner
HitPoses ==
    PlayerAt(70, 210, 0) \cup PlayerAt(70, 210, 1) \cup PlayerAt(70, 210, 2)
        \cup PlayerAt(70, 210, 6) \cup PlayerAt(30, 30, 16)

InitHit ==
    /\ map = Map0
    /\ player \in HitPoses
    /\ since_shot = ShotMs
    /\ monsters \in MonsterLists
    /\ pc = "objects"
    /\ last = Call("init", <<>>, <<>>)
    /\ aborted = FALSE
    /\ ticks = 0
    /\ GfxAtLoop

NextHit == MouseEvent

SpecHit == InitHit /\ [][NextHit]_vars

---------------------------------------------------------------------------
(* The sprites alone: updates toward a player who stands still             *)

\* in cell (9,13) below the corner of the wall cell (8,12); in cell (9,11)
\* beside the wall cell (8,11); on the player; and in the open
SpriteSpots == {<<181, 261>>, <<190, 230>>, <<150, 230>>, <<250, 150>>}

SpriteLists ==
    UNION {{[k \in 1..n |-> [x |-> f[k][1], y |-> f[k][2], tex_id |-> k - 1, player_dist |-> 0]] :
                f \in [1..n -> SpriteSpots]} : n \in 1..2}

InitSprite ==
    /\ map = Map0
    /\ player \in PlayerAt(150, 230, 0) \cup PlayerAt(181, 190, 0)
    /\ since_shot = ShotMs
    /\ monsters \in SpriteLists
    /\ pc = "objects"
    /\ last = Call("init", <<>>, <<>>)
    /\ aborted = FALSE
    /\ ticks = 0
    /\ GfxAtLoop

NextSprite == SpriteUpdate

SpecSprite == InitSprite /\ [][NextSprite]_vars

---------------------------------------------------------------------------
(* The frame loop of main: src/src/gui.cpp, lines 200-263                  *)

MaxFrames == 3

LoopEvents ==
    Events \cup [type : {"quit"}, sym : {"none"}]
           \cup [type : {"keyup", "keydown"}, sym : {"escape"}]

\* line 215: the event ends the loop
IsQuit(e) == e.type = "quit" \/ IsKey(e, "keydown", {"escape"})

\* lines 230-237: the inlined position update, .05 rad and .05 cell a frame
LoopMove(p, m) ==
    LET a1 == Turned(p.a, p.turn)
        nx == p.x + RoundDiv(p.walk * Cos(a1), Trig)
        ny == p.y + RoundDiv(p.walk * Sin(a1), Trig)
        in == Trunc(nx) >= 0 /\ Trunc(nx) < w /\ Trunc(ny) >= 0 /\ Trunc(ny) < h
        x1 == IF in /\ IsEmpty(m, Trunc(nx), Trunc(p.y)) THEN nx ELSE p.x
        y1 == IF in /\ IsEmpty(m, Trunc(x1), Trunc(ny)) THEN ny ELSE p.y
    IN  [p EXCEPT !.a = a1, !.x = x1, !.y = y1]

\* lines 238-240: every sprite's player_dist from the player p
WithDist(p, seq) == [k \in 1..Len(seq) |-> [seq[k] EXCEPT !.player_dist = Dist(p, seq[k])]]

Unsorted(seq) == {seq}

\* line 241: what std::sort can leave under Sprite::operator<, which is
\* player_dist > s.player_dist: any permutation with no later element before
\* an earlier one
Sorts(seq) ==
    {[k \in 1..Len(seq) |-> seq[f[k]]] :
        f \in {g \in [1..Len(seq) -> 1..Len(seq)] :
                 /\ \A a, b \in 1..Len(seq) : a # b => g[a] # g[b]
                 /\ \A a, b \in 1..Len(seq) :
                        a < b => ~(seq[g[b]].player_dist > seq[g[a]].player_dist)}}

InitLoop ==
    /\ map = Map0
    /\ player \in PlayerAt(2 * Q, 14 * Q, 122)
    /\ since_shot = ShotMs
    /\ monsters = Monsters0
    /\ pc = "pace"
    /\ last = Call("init", <<>>, <<>>)
    /\ aborted = FALSE
    /\ ticks = 0
    /\ GfxAtLoop

\* lines 203-208: less than 20 ms since t1: sleep, and once more
LoopSleep ==
    /\ pc = "pace"
    /\ clock.since_t1 < FrameMs
    /\ \E d \in Naps : clock' = Later(clock, d)
    /\ UNCHANGED <<map, player, since_shot, monsters, pc, last, aborted, ticks>>
    /\ UNCHANGED <<fb, prompt, tex, sdl, exit_code>>

\* the tick is taken whatever the time since t1
LoopPaceAlways ==
    /\ pc = "pace"
    /\ ticks < MaxFrames
    /\ ticks' = ticks + 1
    /\ pc' = "poll"
    /\ clock' = [clock EXCEPT !.since_t1 = 0]
    /\ UNCHANGED <<map, player, since_shot, monsters, last, aborted>>
    /\ UNCHANGED <<fb, prompt, tex, sdl, exit_code>>

\* lines 203-209: 20 ms have passed since t1: t1 = t2, a frame begins
LoopPace ==
    /\ pc = "pace"
    /\ clock.since_t1 >= FrameMs
    /\ ticks < MaxFrames
    /\ ticks' = ticks + 1
    /\ pc' = "poll"
    /\ clock' = [clock EXCEPT !.since_t1 = 0]
    /\ UNCHANGED <<map, player, since_shot, monsters, last, aborted>>
    /\ UNCHANGED <<fb, prompt, tex, sdl, exit_code>>

\* lines 212-227: at most one event is polled
LoopPoll ==
    /\ pc = "poll"
    /\ \/ /\ pc' = "update"
          /\ UNCHANGED player
       \/ \E e \in LoopEvents :
            IF IsQuit(e)
            THEN pc' = "cleanup" /\ UNCHANGED player
            ELSE pc' = "update" /\ player' = HandleKeys(player, e)
    /\ UNCHANGED <<map, since_shot, monsters, last, aborted, ticks>>
    /\ UNCHANGED gfx

LoopUpdateThenPace ==
    /\ pc = "update"
    /\ player' = LoopMove(player, map)
    /\ monsters' \in Sorts(WithDist(LoopMove(player, map), monsters))
    /\ pc' = "pace"
    /\ \E d \in Work : clock' = Later(clock, d)
    /\ UNCHANGED <<map, since_shot, last, aborted, ticks>>
    /\ UNCHANGED <<fb, prompt, tex, sdl, exit_code>>

\* lines 229-242: the player moves, the distances are taken, the list is
\* sorted; the poll and the update have taken some time
LoopUpdate ==
    /\ pc = "update"
    /\ player' = LoopMove(player, map)
    /\ monsters' \in Sorts(WithDist(LoopMove(player, map), monsters))
    /\ pc' = "render"
    /\ \E d \in Work : clock' = Later(clock, d)
    /\ UNCHANGED <<map, since_shot, last, aborted, ticks>>
    /\ UNCHANGED <<fb, prompt, tex, sdl, exit_code>>

\* line 245: render(fb, gs) begins now and takes some time
LoopRender ==
    /\ pc = "render"
    /\ IF RenderAsserts(fb)
       THEN /\ fb' = RenderFb(fb, map, player, monsters)
            /\ prompt' = RenderPrompt(map, player)
            /\ pc' = "present"
            /\ \E d \in Work :
                clock' = Later([clock EXCEPT !.since_draw = 0, !.shown = TRUE], d)
            /\ UNCHANGED aborted
       ELSE /\ aborted' = TRUE
            /\ pc' = "done"
            /\ UNCHANGED <<fb, prompt, clock>>
    /\ UNCHANGED <<map, player, since_shot, monsters, last, ticks, tex, sdl, exit_code>>

\* lines 247-254: the framebuffer goes to the screen
LoopPresent ==
    /\ pc = "present"
    /\ pc' = "pace"
    /\ UNCHANGED <<map, player, since_shot, monsters, last, aborted, ticks>>
    /\ UNCHANGED gfx

\* lines 257-264: the SDL resources are released and main returns 0
LoopCleanup ==
    /\ pc = "cleanup"
    /\ pc' = "done"
    /\ sdl' = {}
    /\ exit_code' = "0"
    /\ UNCHANGED <<map, player, since_shot, monsters, last, aborted, ticks, fb, prompt, tex, clock>>

NextLoop ==
    LoopSleep \/ LoopPace \/ LoopPoll \/ LoopUpdate \/ LoopRender \/ LoopPresent \/ LoopCleanup

SpecLoop == InitLoop /\ [][NextLoop]_vars

---------------------------------------------------------------------------
(* SpecMain: main from its first line, src/src/gui.cpp lines 158-264       *)

\* what may lie at the path of an atlas: the shipped file, no file, a file
\* SDL cannot convert, one with another pitch, one narrower than high
FilesAt(shipped) ==
    {shipped, ImageFile(FALSE, TRUE, TRUE, 0, 0), ImageFile(TRUE, FALSE, TRUE, 0, 0),
     ImageFile(TRUE, TRUE, FALSE, 2, 2), ImageFile(TRUE, TRUE, TRUE, 1, 2)}

AtlasMissingWalls(t) == t.walls.count = 0

\* line 176: !gs.tex_walls.count || !gs.tex_monst.count
AtlasMissing(t) == t.walls.count = 0 \/ t.monst.count = 0

InitMain ==
    /\ map = Map0
    /\ player \in PlayerAt(2 * Q, 14 * Q, 122)
    /\ since_shot = ShotMs
    /\ monsters = Monsters0
    /\ pc = "start"
    /\ last = Call("init", <<>>, <<>>)
    /\ aborted = FALSE
    /\ ticks = 0
    /\ fb = FbNone
    /\ prompt = FALSE
    /\ tex = [walls |-> NoTexture, monst |-> NoTexture]
    /\ sdl = {}
    /\ exit_code = "none"
    /\ clock = Clock0

\* return -1, nothing released on the way
MainFails ==
    /\ pc' = "done"
    /\ exit_code' = "-1"

\* lines 161-164: SDL_Init
MainSdlInit ==
    /\ pc = "start"
    /\ \/ MainFails /\ UNCHANGED sdl
       \/ /\ sdl' = {"sdl"}
          /\ pc' = "construct"
          /\ UNCHANGED exit_code
    /\ UNCHANGED <<map, player, since_shot, monsters, last, aborted, ticks, fb, prompt, tex, clock>>

\* lines 166-174: the frame buffer and the game state with its two atlases
MainConstruct ==
    /\ pc = "construct"
    /\ fb' = Fb0
    /\ \E fw \in FilesAt(WallsFile), fm \in FilesAt(MonstFile) :
        \/ /\ LoadDividesByZero(fw) \/ LoadDividesByZero(fm)
           /\ aborted' = TRUE
           /\ pc' = "done"
           /\ UNCHANGED tex
        \/ /\ \E z \in DivByZero :
                tex' = [walls |-> LoadTexture(fw, z), monst |-> LoadTexture(fm, z)]
           /\ pc' = "check"
           /\ UNCHANGED aborted
    /\ UNCHANGED <<map, player, since_shot, monsters, last, ticks, prompt, sdl, exit_code, clock>>

\* lines 176-179
MainCheck ==
    /\ pc = "check"
    /\ IF AtlasMissing(tex)
       THEN MainFails
       ELSE pc' = "window" /\ UNCHANGED exit_code
    /\ UNCHANGED <<map, player, since_shot, monsters, last, aborted, ticks, fb, prompt, tex, sdl, clock>>

\* lines 181-188: SDL_CreateWindowAndRenderer
MainWindow ==
    /\ pc = "window"
    /\ \/ MainFails /\ UNCHANGED sdl
       \/ /\ sdl' = sdl \cup {"window", "renderer"}
          /\ pc' = "texture"
          /\ UNCHANGED exit_code
    /\ UNCHANGED <<map, player, since_shot, monsters, last, aborted, ticks, fb, prompt, tex, clock>>

\* lines 191-197: SDL_CreateTexture, then t1 is taken and the loop begins
MainTexture ==
    /\ pc = "texture"
    /\ \/ MainFails /\ UNCHANGED sdl
       \/ /\ sdl' = sdl \cup {"texture"}
          /\ pc' = "pace"
          /\ UNCHANGED exit_code
    /\ UNCHANGED <<map, player, since_shot, monsters, last, aborted, ticks, fb, prompt, tex, clock>>

NextMain ==
    \/ MainSdlInit \/ MainConstruct \/ MainCheck \/ MainWindow \/ MainTexture
    \/ NextLoop

SpecMain == InitMain /\ [][NextMain]_vars

---------------------------------------------------------------------------
(* SpecTex: an atlas is loaded from an image file and columns are taken    *)
(* from it                                                                 *)

MaxImgW == 6
MaxImgH == 3
MaxHeight == 6

ImageFiles ==
    {ImageFile(l, c, p4, iw, ih) :
        l \in BOOLEAN, c \in BOOLEAN, p4 \in BOOLEAN, iw \in 1..MaxImgW, ih \in 1..MaxImgH}

InitTex ==
    /\ map = Map0
    /\ player = PlayerAt(46, 295, 28)
    /\ since_shot = ShotMs
    /\ monsters = Monsters0
    /\ pc = "tex"
    /\ last = Call("init", <<>>, <<>>)
    /\ aborted = FALSE
    /\ ticks = 0
    /\ fb = Fb0
    /\ prompt = FALSE
    /\ tex = [walls |-> NoTexture, monst |-> NoTexture]
    /\ sdl = {}
    /\ exit_code = "none"
    /\ clock = Clock0

\* Texture(filename, format): the atlas is constructed from the file f
TexLoad ==
    /\ pc = "tex"
    /\ ~aborted
    /\ \E f \in ImageFiles :
        /\ last' = Call("Texture", <<f.loads, f.converts, f.pitch4, f.w, f.h>>, <<>>)
        /\ \/ /\ LoadDividesByZero(f)
              /\ aborted' = TRUE
              /\ UNCHANGED tex
           \/ /\ \E z \in DivByZero : tex' = [tex EXCEPT !.walls = LoadTexture(f, z)]
              /\ UNCHANGED aborted
    /\ UNCHANGED <<map, player, since_shot, monsters, pc, ticks, fb, prompt, sdl, exit_code, clock>>

\* tex_walls.get_scaled_column(id, c, ch): the assertion of line 82, then the
\* column
GetScaledColumnCall ==
    /\ pc = "tex"
    /\ ~aborted
    /\ \E id \in 0..(MaxImgW - 1), c \in 0..(MaxImgW - 1), ch \in 1..MaxHeight :
        IF c < tex.walls.size /\ id < tex.walls.count
        THEN /\ last' = Call("get_scaled_column", <<id, c, ch>>,
                             GetScaledColumn(tex.walls, id, c, ch))
             /\ UNCHANGED aborted
        ELSE /\ last' = Call("get_scaled_column", <<id, c, ch>>, <<>>)
             /\ aborted' = TRUE
    /\ UNCHANGED <<map, player, since_shot, monsters, pc, ticks>>
    /\ UNCHANGED gfx

NextTex == TexLoad \/ GetScaledColumnCall

SpecTex == InitTex /\ [][NextTex]_vars

---------------------------------------------------------------------------
(* SpecColor: four bytes are packed into a colour and unpacked again       *)

ColorBytes == {0, 1, 127, 128, 255}

InitColor ==
    /\ map = Map0
    /\ player = PlayerAt(46, 295, 28)
    /\ since_shot = ShotMs
    /\ monsters = Monsters0
    /\ pc = "color"
    /\ last \in {Call("bytes", <<r, g, b, a>>, <<>>) :
                    r \in ColorBytes, g \in ColorBytes, b \in ColorBytes, a \in ColorBytes}
    /\ aborted = FALSE
    /\ ticks = 0
    /\ GfxAtLoop

\* pack_color(r, g, b, a)
PackColorCall ==
    /\ pc = "color"
    /\ last.op = "bytes"
    /\ last' = Call("pack_color", last.arg,
                    PackColor(last.arg[1], last.arg[2], last.arg[3], last.arg[4]))
    /\ UNCHANGED <<map, player, since_shot, monsters, pc, aborted, ticks>>
    /\ UNCHANGED gfx

\* unpack_color(color, r, g, b, a)
UnpackColorCall ==
    /\ pc = "color"
    /\ last.op = "pack_color"
    /\ last' = Call("unpack_color", last.ret, UnpackColor(last.ret))
    /\ UNCHANGED <<map, player, since_shot, monsters, pc, aborted, ticks>>
    /\ UNCHANGED gfx

NextColor == PackColorCall \/ UnpackColorCall

SpecColor == InitColor /\ [][NextColor]_vars

---------------------------------------------------------------------------
(* The wall pass of render: src/unnamed/part_006, lines 477-563            *)
(* A ray starts at the player's position (px, py), in quanta, and has the  *)
(* direction (dx, dy), in units of 1/Trig.                                 *)

MaxDda == 40    \* cell steps after which the loop is given up as endless

RayStopsAbove9(v) == v > 9

RayStopsPositive(v) == v > 0

\* line 534: map_value > 0 && map_value != 9
RayStops(v) == v > 0 /\ v # 9

\* lines 505-519: step_x, step_y
StepOf(d) == IF d < 0 THEN -1 ELSE 1

\* lines 505-519: side_dist times |ray_dir|, in quanta: the way to the next
\* cell side on one axis
SideDist0(pos, d) ==
    IF d < 0 THEN pos - Trunc(pos) * Q ELSE (Trunc(pos) + 1) * Q - pos

\* lines 523-531: one turn of the loop.  s holds map_x, map_y, and sx, sy:
\* side_dist_x * |ray_dir_x| and side_dist_y * |ray_dir_y| in quanta, so that
\* side_dist_x < side_dist_y is sx * |dy| < sy * |dx|, also where a component
\* is 0 and its side_dist infinite.  inside: no cell entered so far lay
\* outside the map
DdaStep(s, dx, dy) ==
    IF s.sx * Abs(dy) < s.sy * Abs(dx)
    THEN [s EXCEPT !.x = s.x + StepOf(dx), !.sx = s.sx + Q, !.side = 0,
                   !.steps = s.steps + 1,
                   !.inside = s.inside /\ InRange(s.x + StepOf(dx), s.y)]
    ELSE [s EXCEPT !.y = s.y + StepOf(dy), !.sy = s.sy + Q, !.side = 1,
                   !.steps = s.steps + 1,
                   !.inside = s.inside /\ InRange(s.x, s.y + StepOf(dy))]

\* lines 522-535: the loop; hit is FALSE where it has not ended after MaxDda
\* steps or has read outside the array
RECURSIVE DdaFrom(_, _, _, _)
DdaFrom(m, s, dx, dy) ==
    CHOOSE r \in {IF Get(m, u.x, u.y) # Undef /\ RayStops(Get(m, u.x, u.y))
                  THEN [u EXCEPT !.hit = TRUE]
                  ELSE IF Get(m, u.x, u.y) = Undef \/ u.steps >= MaxDda THEN u
                  ELSE DdaFrom(m, u, dx, dy) : u \in {DdaStep(s, dx, dy)}} : TRUE

\* lines 485-536 for one column of the screen
Dda(m, px, py, dx, dy) ==
    DdaFrom(m, [x |-> Trunc(px), y |-> Trunc(py),
                sx |-> SideDist0(px, dx), sy |-> SideDist0(py, dy),
                side |-> 0, steps |-> 0, inside |-> TRUE, hit |-> FALSE], dx, dy)

---------------------------------------------------------------------------
(* The divisors and indices of render: src/unnamed/part_006                *)

\* int(v) of the quotient n / d, d > 0: truncated toward zero
TruncDiv(n, d) == IF n >= 0 THEN n \div d ELSE -((-n) \div d)

\* line 438: p = y - fb.h / 2, which divides posZ on row y
RowOffset(f, y) == y - f.h \div 2

\* line 317: sprite_dist, which divides fb.h in line 320, squared, in quanta
SpriteDist2(p, s) == (s.x - p.x) * (s.x - p.x) + (s.y - p.y) * (s.y - p.y)

\* an int as its two 16-bit halves, and back
Halves(n) == <<(n \div 65536) % 65536, n % 65536>>
Int32(u) == IF u[1] >= 32768 THEN (u[1] - 65536) * 65536 + u[2] ELSE u[1] * 65536 + u[2]

\* a + b and a * k on int, wrapping at 32 bits; 0 < k < 32768
AddWrap(a, b) == Int32(Add32(Halves(a), Halves(b)))
MulWrap(a, k) ==
    Int32(<<(Halves(a)[1] * k + (Halves(a)[2] * k) \div 65536) % 65536,
            (Halves(a)[2] * k) % 65536>>)

\* lines 548-551: draw_start and draw_end for a line height lh on screen f
DrawStart(f, lh) ==
    IF -(lh \div 2) + f.h \div 2 < 0 THEN 0 ELSE -(lh \div 2) + f.h \div 2
DrawEnd(f, lh) ==
    IF AddWrap(lh \div 2, f.h \div 2) >= f.h THEN f.h - 1 ELSE AddWrap(lh \div 2, f.h \div 2)

\* line 558: d = y * 256 - fb.h * 128 + line_height * 128
RowD(f, lh, y) == AddWrap(y * 256 - f.h * 128, MulWrap(lh, 128))

\* line 559: tex_y = ((d * size) / line_height) / 256
TexY(f, lh, y, size) == TruncDiv(TruncDiv(MulWrap(RowD(f, lh, y), size), lh), 256)

\* wall_x_texcoord, lines 233-247, for a hit point whose coordinates have the
\* fractional parts fx / Q and fy / Q; -1 where its assertion fails
WallXTexcoord(fx, fy, size) ==
    LET x == IF 2 * fx >= Q THEN fx - Q ELSE fx
        y == IF 2 * fy >= Q THEN fy - Q ELSE fy
        t0 == IF Abs(y) > Abs(x) THEN TruncDiv(y * size, Q) ELSE TruncDiv(x * size, Q)
        t1 == IF t0 < 0 THEN t0 + size ELSE t0
    IN  IF t1 >= 0 /\ t1 < size THEN t1 ELSE -1

---------------------------------------------------------------------------
(* draw_sprite: src/unnamed/part_006, lines 312-336                        *)
(* Distances are in quanta, the angle between sprite and heading in units  *)
(* of .05 rad; the screen is scr.w columns by scr.h rows.                  *)

SpriteFar == 15         \* cells: sprites farther than this are skipped
MaxSpriteSize == 1000   \* the cap on sprite_screen_size
AlphaMin == 128         \* a texel is drawn if its alpha is greater
FovUnits == 21          \* the player's fov, M_PI/3, in units of .05 rad

\* line 320: min(1000, int(fb.h / sprite_dist)), dist > 0
SpriteScreenSize(scr, dist) ==
    IF (scr.h * Q) \div dist < MaxSpriteSize THEN (scr.h * Q) \div dist ELSE MaxSpriteSize

\* line 321: (sprite_dir - a) * w / fov + w/2 - size/2, converted to int
HOffset(scr, rel, size) ==
    TruncDiv(rel * scr.w + ((scr.w \div 2) - (size \div 2)) * FovUnits, FovUnits)

\* line 322
VOffset(scr, size) == (scr.h \div 2) - (size \div 2)

\* the colour of pixel k of the monster atlas: its alpha is 0, 128 or 255
MonstColor(k) == PackColor(k % 256, 0, 0, <<0, AlphaMin, 255>>[(k % 3) + 1])

\* lines 328-331: the texel for pixel (i, j) of the sprite and its alpha
SpriteAlpha(a, id, i, j, size) ==
    UnpackColor(MonstColor(TexGet(a, (i * a.size) \div size, (j * a.size) \div size, id)))[4]

DrawSpriteNoDepth(scr, a, id, dist, rel, depth) ==
    IF dist > SpriteFar * Q THEN {}
    ELSE LET size == SpriteScreenSize(scr, dist)
             ho == HOffset(scr, rel, size)
             vo == VOffset(scr, size)
         IN  {<<ho + i, vo + j>> : <<i, j>> \in
                {c \in (0..(size - 1)) \X (0..(size - 1)) :
                    /\ ~(ho + c[1] < 0 \/ ho + c[1] >= scr.w)
                    /\ ~(vo + c[2] < 0 \/ vo + c[2] >= scr.h)
                    /\ SpriteAlpha(a, id, c[1], c[2], size) > AlphaMin}}

\* draw_sprite: the pixels it hands to set_pixel; depth is the depth buffer
DrawSprite(scr, a, id, dist, rel, depth) ==
    IF dist > SpriteFar * Q THEN {}
    ELSE LET size == SpriteScreenSize(scr, dist)
             ho == HOffset(scr, rel, size)
             vo == VOffset(scr, size)
         IN  {<<ho + c[1], vo + c[2]>> : c \in
                {c \in (0..(size - 1)) \X (0..(size - 1)) :
                    /\ ~(ho + c[1] < 0 \/ ho + c[1] >= scr.w)
                    /\ ~(depth[ho + c[1] + 1] < dist)
                    /\ ~(vo + c[2] < 0 \/ vo + c[2] >= scr.h)
                    /\ SpriteAlpha(a, id, c[1], c[2], size) > AlphaMin}}

---------------------------------------------------------------------------
(* SpecRoam: the player anywhere he can have walked to from where main     *)
(* puts him, with the doors he can have opened on the way                  *)

Cells == (0..(w - 1)) \X (0..(h - 1))

\* the cells one step of update_position can lead to from cell c
Beside(c) ==
    {<<c[1] + 1, c[2]>>, <<c[1] - 1, c[2]>>, <<c[1], c[2] + 1>>, <<c[1], c[2] - 1>>} \cap Cells

\* the cells update_position can bring the player to from the cells of S:
\* a step enters a cell only if is_empty holds of it
RECURSIVE Walked(_, _)
Walked(m, S) ==
    LET N == S \cup {c \in UNION {Beside(d) : d \in S} : IsEmpty(m, c[1], c[2])}
    IN  IF N = S THEN S ELSE Walked(m, N)

\* the cell main constructs the player in, gui.cpp line 169
StartCell == <<2, 14>>

Reach(m) == Walked(m, {StartCell})

\* the player standing in cell c
Standing(c) == CHOOSE pl \in PlayerAt(c[1] * Q, c[2] * Q, 0) : TRUE

\* the maps the 'f' handler can have made of the maps of S
RECURSIVE Doored(_)
Doored(S) ==
    LET f == [type |-> "keydown", sym |-> "f"]
        N == S \cup UNION {{Opened(m, DoorTargets(Standing(c), m, f)) : c \in Reach(m)} : m \in S}
    IN  IF N = S THEN S ELSE Doored(N)

ReachMaps == Doored({Map0})

\* where in a cell, in quanta, and the headings the player is drawn with
RoamOffsets == {<<1, 1>>, <<18, 18>>}
RoamHeadings == {16, 79}

InitRoam ==
    /\ map \in ReachMaps
    /\ \E c \in Reach(map), o \in RoamOffsets, a \in RoamHeadings :
         player \in {pl \in PlayerAt(c[1] * Q + o[1], c[2] * Q + o[2], a) : ~pl.shooting}
    /\ since_shot = ShotMs
    /\ monsters = Monsters0
    /\ pc = "objects"
    /\ last = Call("init", <<>>, <<>>)
    /\ aborted = FALSE
    /\ ticks = MaxTicks - 1    \* one position update from each place
    /\ GfxAtLoop

NextRoam == KeyEvent \/ PlayerUpdate

SpecRoam == InitRoam /\ [][NextRoam]_vars

---------------------------------------------------------------------------
(* SpecRay: one ray of the wall pass, from any walkable cell               *)

\* cos and sin of the ray angles: the headings of the table and the four
\* directions along the axes
RayDirs ==
    {<<Cos(a), Sin(a)>> : a \in 0..(AUnits - 1)}
        \cup {<<Trig, 0>>, <<0, Trig>>, <<-Trig, 0>>, <<0, -Trig>>}

\* where in the cell the player stands: on its corner, inside it
RayOffsets == {<<0, 0>>, <<7, 13>>}

InitRay ==
    /\ map \in ReachMaps
    /\ \E c \in {d \in Cells : IsEmpty(map, d[1], d[2])}, o \in RayOffsets :
         player = [Standing(c) EXCEPT !.x = c[1] * Q + o[1], !.y = c[2] * Q + o[2]]
    /\ since_shot = ShotMs
    /\ monsters = Monsters0
    /\ pc = "ray"
    /\ last = Call("init", <<>>, <<>>)
    /\ aborted = FALSE
    /\ ticks = 0
    /\ GfxAtLoop

\* the loop is run for a column whose ray has direction d
DdaCall ==
    /\ pc = "ray"
    /\ last.op = "init"
    /\ \E d \in RayDirs :
         last' = Call("dda", d, Dda(map, player.x, player.y, d[1], d[2]))
    /\ UNCHANGED <<map, player, since_shot, monsters, pc, aborted, ticks>>
    /\ UNCHANGED gfx

NextRay == DdaCall

SpecRay == InitRay /\ [][NextRay]_vars

---------------------------------------------------------------------------
(* SpecKeys: events reach Player::handle_event one after another; last     *)
(* keeps the event and the flags it met                                    *)

InitKeys ==
    /\ map = Map0
    /\ player \in Poses
    /\ since_shot = ShotMs
    /\ monsters = Monsters0
    /\ pc = "keys"
    /\ last = Call("init", <<>>, <<>>)
    /\ aborted = FALSE
    /\ ticks = 0
    /\ GfxAtLoop

\* player.handle_event(e, map, monsters), part_007 lines 82-108
HandleEventCall ==
    /\ pc = "keys"
    /\ ~aborted
    /\ \E e \in Events :
        IF \E c \in DoorTargets(player, map, e) : ~InRange(c[1], c[2])
        THEN /\ aborted' = TRUE
             /\ UNCHANGED <<map, player, since_shot, monsters, last>>
        ELSE /\ map' = Opened(map, DoorTargets(player, map, e))
             /\ player' = [HandleKeys(player, e) EXCEPT
                              !.shooting = IF IsFire(e) THEN TRUE ELSE @]
             /\ since_shot' = IF IsFire(e) THEN 0 ELSE since_shot
             /\ monsters' = IF IsFire(e)
                            THEN CheckAndRemoveHitMonster(player, monsters)
                            ELSE monsters
             /\ last' = Call("handle_event", <<e.type, e.sym>>, <<player.turn, player.walk>>)
             /\ UNCHANGED aborted
    /\ UNCHANGED <<pc, ticks>>
    /\ UNCHANGED gfx

NextKeys == HandleEventCall

SpecKeys == InitKeys /\ [][NextKeys]_vars

---------------------------------------------------------------------------
(* SpecDraw: one sprite is drawn over a depth buffer                       *)

ScreenW == 6
ScreenH == 16

Screen == [w |-> ScreenW, h |-> ScreenH]

\* wall distances of the columns, sprite distances, in quanta, and angles
\* between sprite and heading
WallDists == {Q, 5 * Q}
SpriteDists == {Q \div 2, Q, 2 * Q, 5 * Q, 5 * Q + 1, SpriteFar * Q, SpriteFar * Q + 1}
SpriteAngles == {-14, -10, -3, 0, 4, 10, 14}

InitDraw ==
    /\ map = Map0
    /\ player = Standing(StartCell)
    /\ since_shot = ShotMs
    /\ monsters = Monsters0
    /\ pc = "draw"
    /\ last \in {Call("depth_buffer", d, <<>>) : d \in [1..ScreenW -> WallDists]}
    /\ aborted = FALSE
    /\ ticks = 0
    /\ GfxAtLoop

\* draw_sprite(sprite, player, fb, depth_buffer, tex_monst)
DrawSpriteCall ==
    /\ pc = "draw"
    /\ last.op = "depth_buffer"
    /\ \E id \in 0..(tex.monst.count - 1), dist \in SpriteDists, rel \in SpriteAngles :
         last' = Call("draw_sprite", <<last.arg, id, dist, rel>>,
                      DrawSprite(Screen, tex.monst, id, dist, rel, last.arg))
    /\ UNCHANGED <<map, player, since_shot, monsters, pc, aborted, ticks>>
    /\ UNCHANGED gfx

NextDraw == DrawSpriteCall

SpecDraw == InitDraw /\ [][NextDraw]_vars

---------------------------------------------------------------------------
(* SpecWall: one wall slice is drawn, row by row                           *)

\* line heights: int(fb.h / perp_wall_dist) for walls far, near and very near
LineHeights ==
    {1, 2, 3, 64, 525, 1049, 1050, 1051, 4000, 300000, 1048576, 16777216, 16777217}

\* tile sizes of the wall atlas
WallSizes == {2, 64}

\* fractional parts of the hit point, in quanta
HitFracs == {<<0, 0>>, <<0, 7>>, <<10, 0>>, <<19, 0>>, <<0, 19>>, <<3, 0>>}

InitWall ==
    /\ map = Map0
    /\ player = Standing(StartCell)
    /\ since_shot = ShotMs
    /\ monsters = Monsters0
    /\ pc = "wall"
    /\ last \in {Call("wall_slice", <<lh, size, fr>>, <<>>) :
                    lh \in LineHeights, size \in WallSizes, fr \in HitFracs}
    /\ aborted = FALSE
    /\ ticks = 0
    /\ fb = FbClear(Fb0)
    /\ prompt = FALSE
    /\ tex = Tex0
    /\ sdl = SdlAll
    /\ exit_code = "none"
    /\ clock = Clock0

\* lines 554-562: a row of the slice; last.ret is <<y, tex_x, tex_y>> of the
\* row just painted
WallRow ==
    /\ pc = "wall"
    /\ ~aborted
    /\ LET lh == last.arg[1]
           size == last.arg[2]
           y == IF last.ret = <<>> THEN DrawStart(fb, lh) ELSE last.ret[1] + 1
           tx == WallXTexcoord(last.arg[3][1], last.arg[3][2], size)
           ty == TexY(fb, lh, y, size)
       IN  /\ y < DrawEnd(fb, lh)
           /\ last' = Call("wall_slice", last.arg, <<y, tx, ty>>)
           /\ aborted' = ~(tx >= 0 /\ tx < size /\ ty >= 0 /\ ty < size
                            /\ FbSized(fb) /\ y >= 0 /\ y < fb.h)
    /\ UNCHANGED <<map, player, since_shot, monsters, pc, ticks>>
    /\ UNCHANGED gfx

NextWall == WallRow

SpecWall == InitWall /\ [][NextWall]_vars

---------------------------------------------------------------------------
(* Properties                                                              *)

\* C1: in every reachable state of the player walking the map, the cell
\* (int(x), int(y)) holding the player is walkable: Map::is_empty is true of it.
C1_PlayerInWalkableCell ==
    IsEmpty(map, Trunc(player.x), Trunc(player.y))

\* an update has committed x where the cell beside the new x, one row up, is
\* a wall: y was withheld and the player stands below the wall cell (8,12)
C1_Witness ==
    /\ last.op = "update_position"
    /\ last.ret = <<TRUE, TRUE, TRUE, FALSE>>
    /\ Trunc(player.x) = 8 /\ Trunc(player.y) = 13
    /\ ~IsEmpty(map, 8, 12)

\* the x axis of the candidate is blocked: is_empty(nx, y) is false
BlockedX(p, m) == ~IsEmpty(m, Trunc(CandX(p)), Trunc(p.y))

\* the y axis is blocked, tested beside the x the update holds by then
BlockedYAt(p, m, x) == ~IsEmpty(m, Trunc(x), Trunc(CandY(p)))

\* the step is a call of Player::update_position that returned
IsPlayerUpdate == ticks' = ticks + 1 /\ last'.op = "update_position" /\ ~aborted'

\* only the unblocked axis moves, to its candidate value
SlidesAlong(bx) ==
    IF bx THEN player'.x = player.x /\ player'.y = CandY(player)
    ELSE player'.x = CandX(player) /\ player'.y = player.y

\* C2 as amended: when the candidate (nx, ny) is inside the map and exactly
\* one axis is blocked, the y axis being tested beside the x the update has
\* just committed (is_empty(nx, y) false but is_empty(x, ny) true, or
\* is_empty(nx, y) true but is_empty(nx, ny) false), only the unblocked axis's
\* coordinate is set to its candidate and the blocked one keeps its value.
C2_PartialSlide ==
    [][IsPlayerUpdate /\ CandInMap(player) =>
        LET bx == BlockedX(player, map)
            by == BlockedYAt(player, map, IF bx THEN player.x ELSE CandX(player))
        IN  (bx # by) => SlidesAlong(bx)]_vars

\* C2 as stated: y counts as blocked when is_empty(x, ny) is false at the x
\* the player had before the update.
C2_SlideFromOldX ==
    [][IsPlayerUpdate /\ CandInMap(player) =>
        LET bx == BlockedX(player, map)
            by == BlockedYAt(player, map, player.x)
        IN  (bx # by) => SlidesAlong(bx)]_vars

\* an update beside the corner of the wall cell (8,12) committed x and then
\* withheld y, which was free beside the old x and blocked beside the new one
C2_Witness ==
    /\ last.op = "update_position"
    /\ last.ret = <<TRUE, TRUE, TRUE, FALSE>>
    /\ player.x = 179 /\ player.y = 260
    /\ IsEmpty(map, 9, 12) /\ ~IsEmpty(map, 8, 12)

\* the cell (i + d[1], j + d[2]) of map m holds a door
DoorBeside(m, c, d) == m[(c[1] + d[1]) + (c[2] + d[2]) * w + 1] = D3

ProbeOrder == <<<<1, 0>>, <<-1, 0>>, <<0, 1>>, <<0, -1>>>>

IsOpenDoor == last'.op = "open_door" /\ ~aborted'

\* C4: open_door(i, j) on a cell holding code 3 takes is_empty(i, j) from
\* false to true, and a second open_door on the same cell changes nothing.
C4_OpenDoor ==
    [][IsOpenDoor =>
        /\ At(map, last'.arg[1] + last'.arg[2] * w) = D3 =>
              /\ ~IsEmpty(map, last'.arg[1], last'.arg[2])
              /\ IsEmpty(map', last'.arg[1], last'.arg[2])
        /\ last.op = "open_door" /\ last.arg = last'.arg => map' = map]_vars

\* open_door was called twice in a row on a cell that held a door
C4_Witness ==
    /\ last.op = "open_door"
    /\ last.ret = <<SP, D3>>
    /\ IsEmpty(map, last.arg[1], last.arg[2])

\* C7 as stated: every call of get or is_empty with i >= w or j >= h trips an
\* assertion: the program is aborted and no value is returned.
C7_FailFast ==
    last.op \in {"get", "is_empty"} /\ ~InRange(last.arg[1], last.arg[2])
        => aborted

\* the cell of index k holds what is_empty accepts
EmptyAt(m, k) == m[k] = SP \/ m[k] = T9

\* C5: over any sequence of key and mouse events, position updates, sprite
\* updates and renders, every cell whose initial code is not 3 keeps that
\* code, every cell whose initial code is 3 holds 3 or is empty, and a door
\* cell that is empty stays empty.
C5_DoorOpeningOnly ==
    /\ [](\A k \in 1..(w * h) :
            IF Map0[k] # D3 THEN map[k] = Map0[k]
            ELSE map[k] = D3 \/ map[k] = SP)
    /\ [][\A k \in 1..(w * h) :
            Map0[k] = D3 /\ EmptyAt(map, k) => EmptyAt(map', k)]_vars

\* a door has been opened and the player has moved since
C5_Witness ==
    /\ \E k \in 1..(w * h) : Map0[k] = D3 /\ map[k] = SP
    /\ ticks > 0

FDown == [type |-> "keydown", sym |-> "f"]

\* C6: an 'f' key-down while the player's cell holds code 9 and check_door
\* returns a non-zero offset (di, dj) opens exactly the cell (i+di, j+dj) and
\* changes no other cell; an 'f' key-down while the player's cell is not code
\* 9, or while check_door returns (0,0), leaves the whole map unchanged.
C6_InteractionKey ==
    [][HandleEventOf(FDown) =>
        LET i == Trunc(player.x)
            j == Trunc(player.y)
            d == CheckDoor(map, i, j)
            t == (i + d[1]) + (j + d[2]) * w + 1
        IN  IF Get(map, i, j) = 9 /\ d # <<0, 0>>
            THEN /\ ~EmptyAt(map, t) /\ EmptyAt(map', t)
                 /\ \A k \in 1..(w * h) : k # t => map'[k] = map[k]
            ELSE map' = map]_vars

\* the player stands on the threshold (11,3) and the door (11,2) is open
C6_Witness ==
    /\ Trunc(player.x) = 11 /\ Trunc(player.y) = 3
    /\ Get(map, 11, 3) = 9
    /\ Map0[11 + 2 * w + 1] = D3
    /\ IsEmpty(map, 11, 2)

\* the sprite is nearer than 15 cells and its bearing is less than fov / 20
\* off the heading
InShotCone(p, s) ==
    /\ (s.x - p.x) * (s.x - p.x) + (s.y - p.y) * (s.y - p.y) < (ShotRange * Q) * (ShotRange * Q)
    /\ Within(p, s.x - p.x, s.y - p.y, ConeNum, ConeDen)

OutOfCone(s) == ~InShotCone(player, s)

\* a cell that is not walkable lies on the segment from the player to s
WallBetween(p, s) ==
    \E n \in 1..15 :
        ~IsEmpty(map, Trunc(p.x + ((s.x - p.x) * n) \div 16),
                      Trunc(p.y + ((s.y - p.y) * n) \div 16))

\* C8: on a fire event the monster list loses exactly the sprites nearer than
\* 15 whose bearing is less than fov / 20 off the heading, and keeps the
\* others in their order, whatever walls lie between.
C8_HitTest ==
    [][(\E e \in Events : IsFire(e) /\ HandleEventOf(e)) =>
        monsters' = SelectSeq(monsters, OutOfCone)]_vars

\* a fire event removed two sprites in a row, one of them beyond a wall, and
\* kept a third
C8_Witness ==
    /\ last.op = "check_and_remove_hit_monster"
    /\ Len(last.arg) = 3 /\ Len(last.ret) = 1
    /\ last.ret = monsters
    /\ InShotCone(player, last.arg[1]) /\ InShotCone(player, last.arg[2])
    /\ WallBetween(player, last.arg[2])
    /\ ~WallBetween(player, last.arg[3])

\* C9: at every render of the frame loop each sprite's player_dist is its
\* distance to the player's current position and the monster list is in
\* non-increasing order of player_dist.
C9_PaintOrder ==
    pc = "render" =>
        /\ \A k \in 1..Len(monsters) : monsters[k].player_dist = Dist(player, monsters[k])
        /\ \A k \in 1..(Len(monsters) - 1) :
              monsters[k].player_dist >= monsters[k + 1].player_dist

\* render is reached after the player has moved, the list reordered
C9_Witness ==
    /\ pc = "render"
    /\ player.x # 2 * Q
    /\ monsters[1].tex_id = 2 /\ monsters[3].tex_id = 0
    /\ monsters[1].player_dist > monsters[3].player_dist

\* the step is a call of Sprite::update_position on sprite k that returned
IsSpriteUpdate(k) == last'.op = "sprite_update" /\ last'.arg = k /\ ~aborted'

\* C10: Sprite::update_position commits the x candidate only if the cell
\* (new_x, y) is walkable and then the y candidate only if the cell (x, new_y)
\* is walkable, and every sprite is in a walkable cell after any sequence of
\* updates, wherever the player stands.
C10_SpriteCollision ==
    /\ [](\A k \in 1..Len(monsters) :
            IsEmpty(map, Trunc(monsters[k].x), Trunc(monsters[k].y)))
    /\ [][\A k \in 1..Len(monsters) : IsSpriteUpdate(k) /\ ticks' = ticks + 1 =>
            /\ monsters'[k].x # monsters[k].x =>
                 IsEmpty(map, Trunc(monsters'[k].x), Trunc(monsters[k].y))
            /\ monsters'[k].y # monsters[k].y =>
                 IsEmpty(map, Trunc(monsters'[k].x), Trunc(monsters'[k].y))]_vars

\* an update moved a sprite along x into cell (8,13), below the wall cell
\* (8,12), and withheld the y candidate
C10_Witness ==
    /\ last.op = "sprite_update"
    /\ last.ret = <<TRUE, TRUE, TRUE, FALSE>>
    /\ Trunc(monsters[last.arg].x) = 8 /\ Trunc(monsters[last.arg].y) = 13
    /\ ~IsEmpty(map, 8, 12)

(* C11: get_scaled_column(id, c, H) returns H samples; sample y is the pixel *)
(* of the image at row floor(y*size/H) of column c of tile id, and that row  *)
(* is below size.  With H = size the column is the source column, with       *)
(* H = 2*size every source pixel comes twice in succession.                  *)

\* the pixel of the image file at row r of column c of tile id
SourcePixel(a, id, c, r) == r * a.img_w + id * a.size + c + 1

IsColumn == last.op = "get_scaled_column" /\ ~aborted

C11_ScaledColumn ==
    IsColumn =>
        LET a == tex.walls
            id == last.arg[1]
            c == last.arg[2]
            ch == last.arg[3]
            col == last.ret
        IN  /\ Len(col) = ch
            /\ \A y \in 0..(ch - 1) :
                /\ (y * a.size) \div ch < a.size
                /\ (y * a.size) \div ch < a.img_h
                    => col[y + 1] = SourcePixel(a, id, c, (y * a.size) \div ch)
            /\ (ch = a.size /\ a.size = a.img_h)
                => \A y \in 0..(ch - 1) : col[y + 1] = SourcePixel(a, id, c, y)
            /\ (ch = 2 * a.size /\ a.size = a.img_h)
                => \A r \in 0..(a.size - 1) :
                    /\ col[2 * r + 1] = SourcePixel(a, id, c, r)
                    /\ col[2 * r + 2] = SourcePixel(a, id, c, r)

\* a column twice the tile size was taken from the second tile of an atlas
C11_Witness ==
    /\ IsColumn
    /\ tex.walls.size = 3
    /\ tex.walls.count = 2
    /\ last.arg = <<1, 2, 6>>
    /\ last.ret[3] # last.ret[2]

(* C12: an image whose width is not an exact multiple of its height is not   *)
(* made into an atlas, so a loaded atlas has img_w = size*count and          *)
(* img_h = size.                                                             *)
C12_LoadRejects ==
    tex.walls.count > 0 =>
        /\ tex.walls.img_w = tex.walls.size * tex.walls.count
        /\ tex.walls.img_h = tex.walls.size

(* C14: unpack_color(pack_color(r, g, b, a)) is (r, g, b, a), and the packed *)
(* value is (a<<24) + (b<<16) + (g<<8) + r as a 32-bit number, here its high *)
(* and low halves.                                                           *)
C14_RoundTrip ==
    /\ [](last.op = "pack_color"
            => last.ret = <<last.arg[4] * 256 + last.arg[3],
                            last.arg[2] * 256 + last.arg[1]>>)
    /\ [][(last.op = "pack_color" /\ last'.op = "unpack_color")
            => last'.ret = last.arg]_vars

\* a colour with distinct bytes, the high bit of alpha set, went through both
C14_Witness ==
    /\ last.op = "unpack_color"
    /\ last.ret = <<1, 127, 128, 255>>
    /\ last.arg = <<255 * 256 + 128, 127 * 256 + 1>>


(* C13: when the wall atlas or the monster atlas has not loaded (count = 0)  *)
(* main goes from its check to the exit with -1, and render is not invoked:  *)
(* nothing is ever painted into the frame buffer.                            *)
Painted == fb.img["front"].by # "clear"

C15_FbSize == fb.len = fb.w * fb.h

(* C16: what render leaves in the frame buffer is determined by the scene    *)
(* (map, player, sprites): it is the same whatever the buffer held before,   *)
(* in length and in pixels, and render changes none of map, player and       *)
(* sprite list.                                                              *)
IsRender == pc = "render" /\ pc' = "present"

\* frame buffers of the same width and height holding anything else
StaleBuffers ==
    {[w |-> fb.w, h |-> fb.h, len |-> l, img |-> i] :
        l \in {0, Fb0.len, fb.w * fb.h},
        i \in [Pixels -> {Paint("clear", NoView), Paint("floor", <<1, 1, TRUE, 1, 1>>),
                          Paint("front", <<2, 14, FALSE, 3, 0>>)}]}

C17_FrameOrder ==
    [][/\ pc = "pace" => pc' \in {"pace", "poll"}
       /\ pc = "poll" => pc' \in {"poll", "update", "cleanup"}
       /\ pc = "update" => pc' \in {"update", "render"}
       /\ pc = "render" => pc' \in {"render", "present"}
       /\ pc = "present" => pc' \in {"present", "pace"}
       /\ (pc' = "cleanup" /\ pc # "cleanup") => pc = "poll"
       /\ (pc' = "done" /\ pc # "done") => pc = "cleanup"
       /\ (pc = "update" /\ pc' = "render")
            => /\ player' = LoopMove(player, map)
               /\ \A k \in 1..Len(monsters') :
                    monsters'[k].player_dist = Dist(player', monsters'[k])
       /\ (pc = "render" /\ pc' = "present")
            => fb'.img["front"] = Paint("front", View(map, player, monsters))
       /\ pc # "render" => fb' = fb]_vars

\* the loop ended at the poll of its second frame, the first one complete
C17_Witness ==
    /\ pc = "done"
    /\ exit_code = "0"
    /\ ticks = 2
    /\ fb.img["front"].by = "front"

(* C18: a quit seen at the poll step ends the loop with no further update or *)
(* render, and texture, renderer and window are destroyed and SDL shut down  *)
(* before main returns; every return of main after SDL was initialised       *)
(* leaves nothing acquired.                                                  *)
C18_ReleasesAll ==
    /\ [][(pc = "poll" /\ pc' = "cleanup")
            => UNCHANGED <<map, player, monsters, fb>>]_vars
    /\ [][(pc = "cleanup" /\ pc' = "done") => (sdl' = {} /\ fb' = fb)]_vars
    /\ []((pc = "done" /\ ~aborted) => sdl = {})

(* C19: the shooting flag is false until the first fire event, true after    *)
(* each fire event, which restarts the timer, and update_position resets it  *)
(* exactly when 100 ms or more have passed since the last fire event.        *)
IsFireStep == since_shot' < since_shot \/ Len(monsters') < Len(monsters)

C19_ShootingTimer ==
    /\ [](last.op = "init" => ~player.shooting)
    /\ [][IsFireStep => (player'.shooting /\ since_shot' = 0)]_vars
    /\ [][(ticks' = ticks + 1 /\ last'.op = "update_position" /\ ~aborted')
            => player'.shooting = (player.shooting /\ since_shot < ShotMs)]_vars

(* C20: on every render the open-door prompt is raised if and only if        *)
(* check_door at the player's integer cell gives a non-zero offset.          *)
C20_PromptCondition ==
    [][fb' # fb =>
        prompt' = (CheckDoor(map, Trunc(player.x), Trunc(player.y)) # <<0, 0>>)]_vars


(* C23: in every state reached through key events, position updates and     *)
(* door openings, every coordinate pair handed to Map::get or Map::is_empty  *)
(* by update_position, by the 'f' handler, by check_door on the player's     *)
(* cell and by the prompt check lies in [0,w) x [0,h); i-1 and j-1 never     *)
(* wrap.                                                                     *)

\* the cells check_door(i, j) reads, up to the one where it finds a door
CheckDoorProbes(m, i, j) ==
    {<<i + 1, j>>}
        \cup (IF Get(m, i + 1, j) # 3 THEN {<<i - 1, j>>} ELSE {})
        \cup (IF Get(m, i + 1, j) # 3 /\ Get(m, i - 1, j) # 3 THEN {<<i, j + 1>>} ELSE {})
        \cup (IF Get(m, i + 1, j) # 3 /\ Get(m, i - 1, j) # 3 /\ Get(m, i, j + 1) # 3
              THEN {<<i, j - 1>>} ELSE {})

\* the cells the two is_empty calls of update_position read
UpdateProbes(p, m) ==
    IF CandInMap(p)
    THEN {<<Trunc(CandX(p)), Trunc(p.y)>>, <<Trunc(MoveXY(p, m)[1]), Trunc(CandY(p))>>}
    ELSE {}

\* the cells the 'f' handler reads and opens
FProbes(p, m) ==
    {<<Trunc(p.x), Trunc(p.y)>>}
        \cup (IF Get(m, Trunc(p.x), Trunc(p.y)) = 9
              THEN CheckDoorProbes(m, Trunc(p.x), Trunc(p.y))
                    \cup DoorTargets(p, m, [type |-> "keydown", sym |-> "f"])
              ELSE {})

C23_QueriesInBounds ==
    ~aborted =>
        \A c \in UpdateProbes(player, map) \cup FProbes(player, map)
                    \cup CheckDoorProbes(map, Trunc(player.x), Trunc(player.y)) :
            InRange(c[1], c[2])

\* the player has walked into the column beside the left border, so that
\* check_door reads column 0
C23_Witness ==
    /\ last.op = "update_position"
    /\ last.ret[3]
    /\ Trunc(player.x) = 1
    /\ <<0, Trunc(player.y)>> \in CheckDoorProbes(map, Trunc(player.x), Trunc(player.y))


(* C21: on the provided map in every door state that can be reached, from   *)
(* every walkable cell and for every ray direction, the strictly horizontal  *)
(* and vertical ones among them, the DDA loop stops after a bounded number   *)
(* of cell steps, and every cell it enters lies inside the map.              *)
C21_DdaTerminates ==
    last.op = "dda" =>
        /\ last.ret.hit
        /\ last.ret.inside
        /\ last.ret.steps <= w + h

\* a strictly vertical ray went up through the opened door (11,2), from the
\* corner of cell (11,5) to the border
C21_Witness ==
    /\ last.op = "dda"
    /\ last.arg = <<0, -Trig>>
    /\ player.x = 11 * Q /\ player.y = 5 * Q
    /\ last.ret.hit
    /\ <<last.ret.x, last.ret.y>> = <<11, 0>>
    /\ last.ret.steps = 5

(* C22: for a ray along an axis the cell where the DDA loop stops is the     *)
(* first cell from the player's cell on whose code is a wall (greater than 0 *)
(* and not 9): empty cells and thresholds do not stop the ray, and the cell  *)
(* is the one found by going cell by cell.                                   *)
IsWallCode(v) == v > 0 /\ v # 9

\* the first wall cell after c in the direction s, going cell by cell
RECURSIVE FirstWall(_, _, _)
FirstWall(m, c, s) ==
    LET n == <<c[1] + s[1], c[2] + s[2]>>
    IN  IF ~InRange(n[1], n[2]) \/ IsWallCode(Get(m, n[1], n[2])) THEN n
        ELSE FirstWall(m, n, s)

AlongAxis(d) == d[1] = 0 \/ d[2] = 0

C22_DdaHitCell ==
    (last.op = "dda" /\ AlongAxis(last.arg)) =>
        /\ last.ret.hit
        /\ <<last.ret.x, last.ret.y>> =
              FirstWall(map, <<Trunc(player.x), Trunc(player.y)>>,
                        <<last.arg[1] \div Trig, last.arg[2] \div Trig>>)
        /\ IsWallCode(Get(map, last.ret.x, last.ret.y))

\* a vertical ray from cell (11,5) passed the threshold (11,3) and stopped at
\* the closed door (11,2)
C22_Witness ==
    /\ last.op = "dda"
    /\ last.arg = <<0, -Trig>>
    /\ Trunc(player.x) = 11 /\ Trunc(player.y) = 5
    /\ Get(map, 11, 3) = 9
    /\ Get(map, 11, 2) = 3
    /\ <<last.ret.x, last.ret.y>> = <<11, 2>>


(* C28: in every reachable state where check_door on the player's cell is    *)
(* non-zero, an 'f' key-down in that state opens the door beside him: the    *)
(* cell at the returned offset is walkable afterwards.                       *)
PromptCondition == CheckDoor(map, Trunc(player.x), Trunc(player.y)) # <<0, 0>>

\* the map an 'f' key-down makes of the present one
AfterF == Opened(map, DoorTargets(player, map, [type |-> "keydown", sym |-> "f"]))

C28_PromptMeansOpens ==
    (~aborted /\ PromptCondition) =>
        LET d == CheckDoor(map, Trunc(player.x), Trunc(player.y))
        IN  /\ ~IsEmpty(map, Trunc(player.x) + d[1], Trunc(player.y) + d[2])
            /\ IsEmpty(AfterF, Trunc(player.x) + d[1], Trunc(player.y) + d[2])

\* the player has stepped onto the threshold (2,5) with the door (2,6) closed
C28_Witness ==
    /\ last.op = "update_position"
    /\ last.ret[4]
    /\ <<Trunc(player.x), Trunc(player.y)>> = <<2, 5>>
    /\ PromptCondition
    /\ AfterF # map

(* C29: in every reachable map, for every cell, the ray-stopping test of the *)
(* renderer (Map::get > 0 and not 9) holds exactly when Map::is_empty does   *)
(* not, a door cell just opened included.                                    *)
C29_WallConsistency ==
    \A c \in Cells : RayStops(Get(map, c[1], c[2])) <=> ~IsEmpty(map, c[1], c[2])

\* the door (11,2) is open, the player still on its threshold
C29_Witness ==
    /\ <<Trunc(player.x), Trunc(player.y)>> = <<11, 3>>
    /\ Map0[11 + 2 * w + 1] = D3
    /\ IsEmpty(map, 11, 2)
    /\ ~RayStops(Get(map, 11, 2))
    /\ Get(map, 6, 9) = 3


(* C30: after any sequence of events turn and walk are each -1, 0 or 1; a    *)
(* key-down of 'a' or 'd' sets turn to -1 or 1, of 'w' or 's' sets walk to 1 *)
(* or -1; a key-up of either key of a pair sets its flag to 0 whatever the   *)
(* flag was; no other event changes the flags.                               *)
FlagAfter(old, type, sym, minus, plus) ==
    IF type = "keydown" /\ sym = minus THEN -1
    ELSE IF type = "keydown" /\ sym = plus THEN 1
    ELSE IF type = "keyup" /\ sym \in {minus, plus} THEN 0
    ELSE old

C30_IntentFlags ==
    /\ player.turn \in {-1, 0, 1}
    /\ player.walk \in {-1, 0, 1}
    /\ last.op = "handle_event" =>
        /\ player.turn = FlagAfter(last.ret[1], last.arg[1], last.arg[2], "a", "d")
        /\ player.walk = FlagAfter(last.ret[2], last.arg[1], last.arg[2], "s", "w")

\* 'a' was released while the flag stood at 1, for 'd': the flag is 0
C30_Witness ==
    /\ last.op = "handle_event"
    /\ last.arg = <<"keyup", "a">>
    /\ last.ret = <<1, -1>>
    /\ player.turn = 0
    /\ player.walk = -1


(* C26: draw_sprite writes a pixel at column c only if c is on the screen,   *)
(* the row is on the screen, the depth buffer of column c is not smaller     *)
(* than the sprite's distance, and the texel's alpha is above 128; it writes *)
(* nothing for a sprite farther than 15.                                     *)
IsDrawn == last.op = "draw_sprite"

\* the alpha of the texel draw_sprite reads for screen pixel (c, r)
AlphaAt(c, r) ==
    LET size == SpriteScreenSize(Screen, last.arg[3])
    IN  SpriteAlpha(tex.monst, last.arg[2],
                    c - HOffset(Screen, last.arg[4], size), r - VOffset(Screen, size), size)

C26_SpriteOcclusion ==
    IsDrawn =>
        /\ \A px \in last.ret :
            /\ px[1] >= 0 /\ px[1] < ScreenW
            /\ px[2] >= 0 /\ px[2] < ScreenH
            /\ last.arg[1][px[1] + 1] >= last.arg[3]
            /\ AlphaAt(px[1], px[2]) > 128
        /\ last.arg[3] > 15 * Q => last.ret = {}

\* a sprite between a near wall and a far wall: drawn on a column where the
\* wall is behind it, hidden on the column beside, where the wall is in front
C26_Witness ==
    /\ IsDrawn
    /\ last.arg[3] = 2 * Q
    /\ last.arg[4] = 0
    /\ last.arg[1][3] = Q /\ last.arg[1][4] = 5 * Q
    /\ \E r \in 0..(ScreenH - 1) : <<3, r>> \in last.ret
    /\ \A r \in 0..(ScreenH - 1) : <<2, r>> \notin last.ret


(* C24: every distance that divides in a frame - the row offset from the     *)
(* horizon in the floor and ceiling pass, the sprite distance - is positive  *)
(* when it divides, also on the row y = h/2 and with a sprite at the         *)
(* player's position.                                                        *)
C24_PositiveDivisors ==
    Painted =>
        /\ \A y \in 0..(fb.h - 1) : RowOffset(fb, y) > 0
        /\ \A k \in 1..Len(monsters) : SpriteDist2(player, monsters[k]) > 0

=============================================================================
